---- MODULE Spec2Model ----
(***************************************************************************)
(* A model of srdjan/deno-server: the resource combinator                  *)
(* (withResource / useResource over effection's resource()), the Request   *)
(* Tracker and the shutdown sequence of createServer.                      *)
(*                                                                         *)
(* The program is written against effection 3 (src/lib/higherAPI-v2.ts     *)
(* carries its instructions: resource, spawn, action, suspend).  A frame   *)
(* that ends - by return, by throw, or by being destroyed - first lets its *)
(* own generator run to the end (its finally blocks included) and then     *)
(* destroys the child frames it still has, youngest first.                 *)
(***************************************************************************)
EXTENDS Naturals, Sequences, FiniteSets

----------------------------------------------------------------------------
(* Bounds *)

\* deepest chain of withResource calls, each made in the use body of the previous
MaxDepth == 3
\* requests (promises) that are created in one run
MaxReq == 3
\* values sent on the signal channel in one run
MaxSignals == 2
\* iterations of the scheduler loop that are followed
MaxIter == 2
\* frames in the chain of spawned tasks
MaxTasks == 3
\* calls of cancelTask on one task
MaxHalts == 2
\* largest maxRetries / maxAttempts passed to retry
MaxAttempts == 4
\* distinct values and distinct errors an operation can produce
MaxVals == 4
\* longest timeout and longest operation, in clock ticks
MaxTime == 4
\* most operations passed to parallel / tasks passed to withConcurrency
MaxOps == 3
\* longest value of an environment variable, in characters
MaxEnvLen == 2
\* invocations of the scheduled operation that are followed
MaxRuns == 3
\* longest route table
MaxRoutes == 2
\* longest middleware list
MaxMiddleware == 3
\* largest initialDelay, backoffFactor and maxDelay of withRetry (in ticks)
MaxInitialDelay == 2
MaxBackoffFactor == 3
MaxMaxDelay == 6

----------------------------------------------------------------------------
VARIABLES
  \* ---- withResource / useResource ----
  depth,        \* length of the chain of nested withResource calls
  hasCleanup,   \* the levels whose call passes the optional cleanup argument
  fpc,          \* fpc[0]: the enclosing task; fpc[i]: the frame of the i-th resource
  acqLog,       \* levels whose acquire() returned, in order
  relLog,       \* levels whose cleanup(resource) was invoked, in order
  useThrew,     \* levels whose use body threw
  cancelledInUse, \* levels whose use body was running when the task was halted
  obs,          \* what the enclosing task's caller has observed
  acqErr        \* the level whose acquire() threw (0: none)

resVars == <<depth, hasCleanup, fpc, acqLog, relLog, useThrew, cancelledInUse, obs,
             acqErr>>

VARIABLES
  \* ---- Request Tracker ----
  reqState,     \* per request: "new", "pending", "resolved", "rejected", "refused"
  tracked,      \* the requests passed to track(), in the order of the calls
  delivered,    \* the requests the tracking loop got from subscription.next(),
                \* in that order
  activeRequests, \* the tracker's Set
  queue,        \* requests sent on the channel, waiting in the loop's subscription
  loopCur,      \* the request the tracking loop awaits (0: it waits in next())
  loopAlive,    \* the tracking loop has not ended
  wfc,          \* the waitForCompletion() call: "idle", "waiting", "returned", "failed"
  snapshot,     \* Array.from(activeRequests) taken by waitForCompletion()
  trackedAtCall,  \* requests passed to track() before waitForCompletion() was called
  trackedInWait   \* requests passed to track() while waitForCompletion() was waiting

trkVars == <<reqState, tracked, delivered, activeRequests, queue, loopCur, loopAlive, wfc,
             snapshot, trackedAtCall, trackedInWait>>

VARIABLES
  \* ---- createServer: the shutdown sequence ----
  draft,        \* "lib": src/lib/server.ts; "p004": the draft in unnamed/part_004
  srvPc,        \* where the shutdown sequence stands ("off": no server in this run)
  accepting,    \* Deno.serve accepts connections
  received,     \* the signal value the sequence was resumed with ("": none)
  sigBuffered,  \* values sent on the signal channel that nothing has read
  sigAfterStop, \* a signal value was sent after the sequence had ended
  iterations,   \* useTaskScheduler's counter
  warnCount,    \* "Some requests did not complete before timeout" warnings
  deadlineExpired, \* shutdownTimeout has elapsed since the signal was handled
  pendingAtDeadline, \* the tracked requests that were unsettled at that time
  forced        \* the sequence ended by the timeout path

srvVars == <<draft, srvPc, accepting, received, sigBuffered, sigAfterStop,
             iterations, warnCount, deadlineExpired, pendingAtDeadline, forced>>

VARIABLES
  \* ---- createSignalHandler: the OS signal listeners ----
  osReceived,   \* OS signals delivered to the registered listeners
  unrunSends    \* channel.send(...) operations that were built and never run

sigVars == <<osReceived, unrunSends>>

VARIABLES
  \* ---- tasks: spawn, cancelTask ----
  tdepth,       \* length of the chain root task > spawned child > its spawned child
  kind,         \* per frame, its body: "susp" (has suspension points), "ret"
                \* (returns without suspending), "throw" (throws without suspending)
  awaitsChild,  \* per frame: after spawn it does try { yield* task } catch {}
  tpc,          \* per frame: "idle", "s1", "s2", "closing", "exited", "settled"
  aborted,      \* per frame: frame.aborted
  crashed,      \* per frame: it was aborted by frame.crash(error)
  blockRes,     \* per frame: how its body ended
  tres,         \* per frame: the state its Task reports once settled
  handle,       \* per frame: its spawner holds its Task
  termLog,      \* frames in the order in which they settled
  relCount,     \* per frame: how often the finally blocks of its body ran
  haltCalls     \* calls of cancelTask on the root task

taskVars == <<tdepth, kind, awaitsChild, tpc, aborted, crashed, blockRes, tres,
              handle, termLog, relCount, haltCalls>>

VARIABLES
  \* ---- retry / withRetry ----
  rImpl,        \* "retry" (part_001, part_003) or "withRetry" (part_002)
  rRuntime,     \* withRetry: what the runtime does with the objects that
                \* compute() and effect() yield
  rMax,         \* maxRetries / maxAttempts
  rDelay,       \* the delay argument (0: none)
  rPc,          \* "ready" (at the loop test), "sleeping", "returned", "thrown"
  rI,           \* the loop counter (i / attempt)
  attempts,     \* invocations of operation
  lastErr,      \* lastError: the attempt whose error it is (0: undefined)
  rResult,      \* the value returned: the attempt that produced it (0: none)
  rThrown,      \* the error thrown to the caller: <<type, attempt>>
  evLog,        \* "ok", "fail" (an invocation and its outcome) and "delay", in order
  rOp,          \* the operation retried: "plain" (it returns or throws) or
                \* "handleRequest" (the fallback(primary, 500 response) that
                \* handleRequest of src/lib/server.ts passes)
  primaryRuns,  \* handleRequest: runs of the primary handling body
  rAnswer,      \* handleRequest: the Response returned (<<"none", 0>>: none)
  initialDelay, \* withRetry: finalConfig.initialDelay
  backoffFactor,  \* withRetry: finalConfig.backoffFactor
  maxDelay,     \* withRetry: finalConfig.maxDelay
  delays        \* the delays slept, in order

retryVars == <<rImpl, rRuntime, rMax, rDelay, rPc, rI, attempts, lastErr, rResult, rThrown, evLog,
               rOp, primaryRuns, rAnswer, initialDelay, backoffFactor, maxDelay, delays>>

VARIABLES
  \* ---- fallback ----
  primOut,      \* what operation() does: <<"value", v>> or <<"error", e>>
  secOut,       \* what fallbackOperation() does
  fbPc,         \* "start", "caught", "returned", "thrown"
  primRuns,     \* invocations of operation
  secRuns,      \* invocations of fallbackOperation
  fbOut         \* what fallback gave its caller

fbVars == <<primOut, secOut, fbPc, primRuns, secRuns, fbOut>>

VARIABLES
  \* ---- withTimeout (part_002) ----
  toRuntime,    \* what the runtime does with the object that effect() yields
  toMs,         \* timeoutMs
  opDur,        \* the time operation needs once it is started
  toPc,         \* "start", "awaiting-timeout", "returned", "failed"
  now,          \* the clock
  timerAt,      \* when the setTimeout callback is due (0: no timer set)
  opState,      \* operation: "notStarted", "running", "done", "cancelled"
  toErr         \* the error withTimeout threw: "none", "timeout", "type-error"

toVars == <<toRuntime, toMs, opDur, toPc, now, timerAt, opState, toErr>>

VARIABLES
  \* ---- parallel / withConcurrency ----
  cImpl,        \* "parallel" (part_002) or "withConcurrency" (part_001, part_003)
  cOrigin,      \* how the tasks were made: "spawn" (children of the caller's
                \* frame) or "run" (tasks of their own, outside that frame)
  nOps,         \* length of the list passed in
  maxConcurrency, \* the limit passed to withConcurrency
  opOut,        \* per operation: "ok" (it returns its value) or "fail" (it throws)
  opSt,         \* per operation: "lazy" (spawn(op) built, not run), "running",
                \* "done", "failed", "halted"; "none": no such operation
  idx,          \* the element of the list the for loop is at
  activeTasks,  \* the Set of withConcurrency
  results,      \* the results array: <<"value", i>> is the result of operation i,
                \* <<"task", i>> is the Task handle of operation i
  cPc,          \* "loop", "racing", "awaiting", "returned", "thrown", "crashed"
  cErr,         \* the operation whose error the call ended with (0: none)
  firstFail     \* the operation that failed first in time (0: none)

parVars == <<cImpl, cOrigin, nOps, maxConcurrency, opOut, opSt, idx, activeTasks,
             results, cPc, cErr, firstFail>>

VARIABLES
  \* ---- withResource: one call, with a cleanup that may throw ----
  wUse,         \* what use(resource) does: <<"value", v>> or <<"error", e>>
  wCleanup,     \* what cleanup(resource) does: <<"value", v>>, <<"error", e>>,
                \* or <<"absent", 0>> when no cleanup was passed
  wPc,          \* "acquired", "finally", "provided", "failed", "closed"
  wInFlight,    \* the completion the try block was left with, while finally runs
  wCaller,      \* what the caller of withResource got: <<"none", 0>>,
                \* <<"value", v>>, <<"use-error", e>> or <<"cleanup-error", e>>
  wTeardown,    \* the error that left the generator when it was closed after
                \* provide (<<"none", 0>>: none)
  wCleanupRuns  \* invocations of cleanup

relVars == <<wUse, wCleanup, wPc, wInFlight, wCaller, wTeardown, wCleanupRuns>>

VARIABLES
  \* ---- start: createConfig, then createServer ----
  envPort,      \* Deno.env.get("PORT"), a sequence of characters (<<>>: unset or "")
  envShutdownTimeout, \* Deno.env.get("SHUTDOWN_TIMEOUT")
  routesGiven,  \* appRoutes is a non-empty array
  startPc,      \* "start", "create-config", "create-server" (createServer was
                \* entered), "failed" (start threw)
  config,       \* the Config that createConfig returned (port, shutdownTimeout)
  startErr      \* the message of the error start threw ("": none)

cfgVars == <<envPort, envShutdownTimeout, routesGiven, startPc, config, startErr>>

VARIABLES
  \* ---- useTaskScheduler (part_001) / schedule (part_003) ----
  sImpl,        \* "useTaskScheduler" or "schedule"
  sDelay,       \* options.delay (0: absent or 0)
  sMaxIterations, \* options.maxIterations (0: absent or 0)
  sFails,       \* the invocations of operation that throw
  sPc,          \* "start", "delaying", "run", "sleeping", "returned", "thrown"
  sIterations,  \* the counter `iterations`
  sLog,         \* "delay" (sleep(options.delay) done), "op" (operation invoked),
                \* "interval" (sleep(interval) done), in order
  sCaught,      \* the invocations whose error the catch block took
  sErr          \* the invocation whose error the call threw (0: none)

schVars == <<sImpl, sDelay, sMaxIterations, sFails, sPc, sIterations, sLog, sCaught, sErr>>

VARIABLES
  \* ---- handleRequest: static files and the route table ----
  hImpl,        \* "lib" (src/lib/server.ts) or "server" (src/server/server.ts)
  routes,       \* the table: a sequence of [paths, method, handler], where paths
                \* is the set of paths route.path matches (a string: one path)
                \* and handler is "responds" or "throws"
  reqPath,      \* url.pathname of the request
  reqMethod,    \* req.method
  isFile,       \* Deno.stat finds a file at publicDir + path
  serve,        \* what serveStatic does for that file: "responds" or "throws"
  hPc,          \* "stat", "match", "answered"
  answer        \* <<"none", 0>>, <<"static", 0>>, <<"route", k>> (the response
                \* of the k-th route), <<"status", 404>>, <<"status", 500>>

rtVars == <<hImpl, routes, reqPath, reqMethod, isFile, serve, hPc, answer>>

VARIABLES
  \* ---- createMiddleware ----
  mImpl,        \* "lib" (src/lib/server.ts) or "p003" (unnamed/part_003)
  middleware,   \* the rest parameter: a sequence of middleware names
  mPc,          \* "start", "created", "composed", "called", "done"
  composed,     \* the handler createMiddleware(...)(handler) returned: the
                \* names of its wrappers, outermost first, then "handler"
  seen          \* who has seen the request so far, in order

mwVars == <<mImpl, middleware, mPc, composed, seen>>

VARIABLES
  \* ---- action(operation) of higherAPI-v2.ts ----
  aHow,         \* what the body does: "resolve", "reject", "throw" (it throws
                \* without settling) or "none" (it never settles)
  aSync,        \* the body settles while it runs (TRUE) or a callback it
                \* installed settles later, while the child is suspended
  aValue,       \* the value resolved, or the number of the error
  aTeardown,    \* the body's finally block: "none", "ok" or "throws"
  aPc,          \* the caller, at the yield of the action: "start", "waiting",
                \* "resumed"
  aChild,       \* the child frame: "none", "suspended", "closing", "destroyed"
  aSettled,     \* the Result given to settle: <<"none", 0>>, <<"ok", v>>,
                \* <<"err", e>>
  aDestruction, \* the Result of the child's destruction
  aTeardownRan, \* the finally block of the body has run
  aOut          \* the Result the action resumed its caller with

actVars == <<aHow, aSync, aValue, aTeardown, aPc, aChild, aSettled, aDestruction,
             aTeardownRan, aOut>>

VARIABLES
  \* ---- createServer from its first line: start-up ----
  uDraft,       \* "lib" (src/lib/server.ts) or "p004" (unnamed/part_004)
  uPc,          \* createServer: "start", "in_tracker" (inside
                \* createRequestTracker()), "serving" (Deno.serve was called)
  uTracker,     \* createRequestTracker() has returned the tracker
  uLoop,        \* the tracking loop: "none" (never started), "waiting" (in
                \* subscription.next()), "busy" (awaiting a request)
  uReq,         \* per request: "idle", "pending", "resolved", "rejected"
  uSent,        \* the requests given to channel.send by track(), in order
  uActive       \* activeRequests

upVars == <<uDraft, uPc, uTracker, uLoop, uReq, uSent, uActive>>

extVars == <<sigVars, taskVars, retryVars, fbVars, toVars, parVars, relVars, cfgVars, schVars, rtVars, mwVars, actVars, upVars>>

\* what an action of one of these components leaves alone
notSig == <<taskVars, retryVars, fbVars, toVars, parVars, relVars, cfgVars, schVars, rtVars, mwVars, actVars, upVars>>
notTask == <<sigVars, retryVars, fbVars, toVars, parVars, relVars, cfgVars, schVars, rtVars, mwVars, actVars, upVars>>
notRetry == <<sigVars, taskVars, fbVars, toVars, parVars, relVars, cfgVars, schVars, rtVars, mwVars, actVars, upVars>>
notFb == <<sigVars, taskVars, retryVars, toVars, parVars, relVars, cfgVars, schVars, rtVars, mwVars, actVars, upVars>>
notTo == <<sigVars, taskVars, retryVars, fbVars, parVars, relVars, cfgVars, schVars, rtVars, mwVars, actVars, upVars>>
notPar == <<sigVars, taskVars, retryVars, fbVars, toVars, relVars, cfgVars, schVars, rtVars, mwVars, actVars, upVars>>
notRel == <<sigVars, taskVars, retryVars, fbVars, toVars, parVars, cfgVars, schVars, rtVars, mwVars, actVars, upVars>>
notCfg == <<sigVars, taskVars, retryVars, fbVars, toVars, parVars, relVars, schVars, rtVars, mwVars, actVars, upVars>>
notSch == <<sigVars, taskVars, retryVars, fbVars, toVars, parVars, relVars, cfgVars, rtVars, mwVars, actVars, upVars>>
notRt == <<sigVars, taskVars, retryVars, fbVars, toVars, parVars, relVars, cfgVars, schVars, mwVars, actVars, upVars>>
notMw == <<sigVars, taskVars, retryVars, fbVars, toVars, parVars, relVars, cfgVars, schVars, rtVars, actVars, upVars>>
notAct == <<sigVars, taskVars, retryVars, fbVars, toVars, parVars, relVars, cfgVars, schVars, rtVars, mwVars, upVars>>
notUp == <<sigVars, taskVars, retryVars, fbVars, toVars, parVars, relVars, cfgVars, schVars, rtVars, mwVars, actVars>>

coreVars == <<resVars, trkVars, srvVars>>

vars == <<coreVars, extVars>>

Levels == 1..MaxDepth
Frames == 0..MaxDepth

\* no OS signal has been delivered
SigOff ==
  /\ osReceived = 0
  /\ unrunSends = 0

\* the state of everything outside the three core components at start
TFrames == 1..MaxTasks

\* no task in this run
TaskOff ==
  /\ tdepth = 1
  /\ kind = [f \in TFrames |-> "susp"]
  /\ awaitsChild = [f \in TFrames |-> FALSE]
  /\ tpc = [f \in TFrames |-> "idle"]
  /\ aborted = [f \in TFrames |-> FALSE]
  /\ crashed = [f \in TFrames |-> FALSE]
  /\ blockRes = [f \in TFrames |-> "none"]
  /\ tres = [f \in TFrames |-> "none"]
  /\ handle = [f \in TFrames |-> FALSE]
  /\ termLog = <<>>
  /\ relCount = [f \in TFrames |-> 0]
  /\ haltCalls = 0

\* no retry in this run
RetryOff ==
  /\ rImpl = "retry"
  /\ rRuntime = "effection"
  /\ rMax = 0
  /\ rDelay = 0
  /\ rPc = "off"
  /\ rI = 0
  /\ attempts = 0
  /\ lastErr = 0
  /\ rResult = 0
  /\ rThrown = <<"none", 0>>
  /\ evLog = <<>>
  /\ rOp = "plain"
  /\ primaryRuns = 0
  /\ rAnswer = <<"none", 0>>
  /\ initialDelay = 1
  /\ backoffFactor = 1
  /\ maxDelay = 1
  /\ delays = <<>>

\* no fallback in this run
FbOff ==
  /\ primOut = <<"value", 1>>
  /\ secOut = <<"value", 1>>
  /\ fbPc = "off"
  /\ primRuns = 0
  /\ secRuns = 0
  /\ fbOut = <<"none", 0>>

\* no withTimeout in this run
ToOff ==
  /\ toRuntime = "effection"
  /\ toMs = 1
  /\ opDur = 1
  /\ toPc = "off"
  /\ now = 0
  /\ timerAt = 0
  /\ opState = "notStarted"
  /\ toErr = "none"

Ops == 1..MaxOps

\* no parallel / withConcurrency in this run
ParOff ==
  /\ cImpl = "parallel"
  /\ cOrigin = "spawn"
  /\ nOps = 1
  /\ maxConcurrency = 1
  /\ opOut = [i \in Ops |-> "ok"]
  /\ opSt = [i \in Ops |-> "none"]
  /\ idx = 1
  /\ activeTasks = {}
  /\ results = <<>>
  /\ cPc = "off"
  /\ cErr = 0
  /\ firstFail = 0

\* no such call in this run
RelOff ==
  /\ wUse = <<"value", 1>>
  /\ wCleanup = <<"absent", 0>>
  /\ wPc = "off"
  /\ wInFlight = <<"none", 0>>
  /\ wCaller = <<"none", 0>>
  /\ wTeardown = <<"none", 0>>
  /\ wCleanupRuns = 0

\* a number as parseInt returns it: NaN, or an integer with its sign
\* (neg /\ mag = 0 is -0)
NaN == [nan |-> TRUE, neg |-> FALSE, mag |-> 0]
Int(neg, mag) == [nan |-> FALSE, neg |-> neg, mag |-> mag]

NoConfig == [port |-> NaN, shutdownTimeout |-> NaN]

\* start is not called in this run
CfgOff ==
  /\ envPort = <<>>
  /\ envShutdownTimeout = <<>>
  /\ routesGiven = TRUE
  /\ startPc = "off"
  /\ config = NoConfig
  /\ startErr = ""

\* no scheduler of its own in this run
SchOff ==
  /\ sImpl = "useTaskScheduler"
  /\ sDelay = 0
  /\ sMaxIterations = 0
  /\ sFails = {}
  /\ sPc = "off"
  /\ sIterations = 0
  /\ sLog = <<>>
  /\ sCaught = {}
  /\ sErr = 0

\* no request is handled in this run
RtOff ==
  /\ hImpl = "lib"
  /\ routes = <<>>
  /\ reqPath = "/a"
  /\ reqMethod = "GET"
  /\ isFile = FALSE
  /\ serve = "responds"
  /\ hPc = "off"
  /\ answer = <<"none", 0>>

\* no middleware is composed in this run
MwOff ==
  /\ mImpl = "lib"
  /\ middleware = <<>>
  /\ mPc = "off"
  /\ composed = <<>>
  /\ seen = <<>>

\* no action is yielded in this run
ActOff ==
  /\ aHow = "none"
  /\ aSync = FALSE
  /\ aValue = 1
  /\ aTeardown = "none"
  /\ aPc = "off"
  /\ aChild = "none"
  /\ aSettled = <<"none", 0>>
  /\ aDestruction = <<"none", 0>>
  /\ aTeardownRan = FALSE
  /\ aOut = <<"none", 0>>

\* createServer is not started in this run
UpOff ==
  /\ uDraft = "lib"
  /\ uPc = "off"
  /\ uTracker = FALSE
  /\ uLoop = "none"
  /\ uReq = [r \in 1..MaxReq |-> "idle"]
  /\ uSent = <<>>
  /\ uActive = {}

ExtOff == SigOff /\ TaskOff /\ RetryOff /\ FbOff /\ ToOff /\ ParOff /\ RelOff /\ CfgOff /\ SchOff /\ RtOff /\ MwOff /\ ActOff /\ UpOff

----------------------------------------------------------------------------
(* withResource(acquire, use, cleanup?): resource(function* (provide) {    *)
(*   const resource = yield* acquire();                                    *)
(*   try { const result = yield* use(resource); yield* provide(result); }  *)
(*   finally { if (cleanup) { yield* cleanup(resource); } } })             *)

\* The frame of resource i is inside the try block: a throw or a return()
\* injected into its generator reaches the finally block.
InTry(i) == fpc[i] \in {"nested", "using", "provided"}

\* A finally block that is skipped when the try block is left by return():
\* cleanup only on a throw or on the normal end of the generator.
OwnRelease_OnThrowOnly(i, how) ==
  IF InTry(i) /\ i \in hasCleanup /\ how = "throw" THEN <<i>> ELSE <<>>

\* The cleanup invocations of frame i's own generator when it is ended with
\* `how` ("throw": an error thrown into it, "return": return() injected by
\* destroy): the finally block runs cleanup(resource) if cleanup was passed.
OwnRelease(i, how) ==
  IF InTry(i) /\ i \in hasCleanup THEN <<i>> ELSE <<>>

\* The cleanup invocations of destroying frame i and everything under it:
\* its own generator is closed first, then its child frame is destroyed.
RECURSIVE Destroy(_)
Destroy(i) ==
  IF i > depth \/ fpc[i] \in {"idle", "exited"}
  THEN <<>>
  ELSE OwnRelease(i, "return") \o Destroy(i + 1)

\* An error leaving frame i+1 is thrown into the use body of frame i, which
\* does not catch it: finally runs, the frame fails, and so on up to level 1.
RECURSIVE Escalate(_)
Escalate(i) ==
  IF i = 0 THEN <<>> ELSE OwnRelease(i, "throw") \o Escalate(i - 1)

AllExited == [f \in Frames |-> IF f <= depth THEN "exited" ELSE "idle"]

ResInit ==
  /\ depth \in Levels
  /\ hasCleanup \in SUBSET (1..depth)
  /\ fpc = [f \in Frames |-> IF f = 0 THEN "calling"
                             ELSE IF f = 1 THEN "acquiring" ELSE "idle"]
  /\ acqLog = <<>>
  /\ relLog = <<>>
  /\ useThrew = {}
  /\ cancelledInUse = {}
  /\ obs = "none"
  /\ acqErr = 0

\* acquire() of level i returns: the use body starts.  Below the deepest
\* level it calls the next withResource at once and waits for its value.
AcquireOk(i) ==
  /\ fpc[i] = "acquiring"
  /\ acqLog' = Append(acqLog, i)
  /\ fpc' = IF i < depth
            THEN [fpc EXCEPT ![i] = "nested", ![i + 1] = "acquiring"]
            ELSE [fpc EXCEPT ![i] = "using"]
  /\ UNCHANGED <<acqErr, depth, hasCleanup, relLog, useThrew, cancelledInUse, obs>>
  /\ UNCHANGED <<trkVars, srvVars, extVars>>

\* acquire() called inside the try block: its failure would run the finally
\* block of its own level as well.
FailedAcquireRelease_InsideTry(i) ==
  (IF i \in hasCleanup THEN <<i>> ELSE <<>>) \o Escalate(i - 1)

\* The cleanup invocations that follow a throw of acquire() of level i:
\* `const resource = yield* acquire()` stands before the try, so the finally
\* of level i is not entered; the error is thrown into the use bodies above.
FailedAcquireRelease(i) == Escalate(i - 1)

\* acquire() of level i throws: it is outside the try block, the frame of
\* level i fails and the error is thrown into the use bodies above.
AcquireFail(i) ==
  /\ fpc[i] = "acquiring"
  /\ relLog' = relLog \o FailedAcquireRelease(i)
  /\ fpc' = AllExited
  /\ obs' = "error"
  /\ acqErr' = i
  /\ UNCHANGED <<depth, hasCleanup, acqLog, useThrew, cancelledInUse>>
  /\ UNCHANGED <<trkVars, srvVars, extVars>>

\* use(resource) of level i returns: provide(result) resumes the caller of
\* this withResource and suspends the resource's frame.
UseReturn(i) ==
  /\ fpc[i] = "using"
  /\ fpc' = IF i = 1
            THEN [fpc EXCEPT ![1] = "provided", ![0] = "holding"]
            ELSE [fpc EXCEPT ![i] = "provided", ![i - 1] = "using"]
  /\ obs' = IF i = 1 THEN "value" ELSE obs
  /\ UNCHANGED <<acqErr, depth, hasCleanup, acqLog, relLog, useThrew, cancelledInUse>>
  /\ UNCHANGED <<trkVars, srvVars, extVars>>

\* use(resource) of level i throws: its finally runs, its frame destroys the
\* (provided) resources under it, and the error goes up.
UseThrow(i) ==
  /\ fpc[i] = "using"
  /\ relLog' = relLog \o OwnRelease(i, "throw") \o Destroy(i + 1) \o Escalate(i - 1)
  /\ fpc' = AllExited
  /\ useThrew' = useThrew \cup {i}
  /\ obs' = "error"
  /\ UNCHANGED <<acqErr, depth, hasCleanup, acqLog, cancelledInUse>>
  /\ UNCHANGED <<trkVars, srvVars, extVars>>

\* The enclosing task's body returns while it holds the value: its frame
\* ends and destroys the resource frames.
CallerFinish ==
  /\ fpc[0] = "holding"
  /\ relLog' = relLog \o Destroy(1)
  /\ fpc' = AllExited
  /\ obs' = "completed"
  /\ UNCHANGED <<acqErr, depth, hasCleanup, acqLog, useThrew, cancelledInUse>>
  /\ UNCHANGED <<trkVars, srvVars, extVars>>

\* cancelTask(task): task.halt() destroys the enclosing task's frame; the
\* promise settles when every frame under it has ended.
Halt ==
  /\ fpc[0] \in {"calling", "holding"}
  /\ relLog' = relLog \o Destroy(1)
  /\ cancelledInUse' = {i \in 1..depth : fpc[i] \in {"nested", "using"}}
  /\ fpc' = AllExited
  /\ obs' = "cancelled"
  /\ UNCHANGED <<acqErr, depth, hasCleanup, acqLog, useThrew>>
  /\ UNCHANGED <<trkVars, srvVars, extVars>>

ResNext ==
  \/ \E i \in Levels : AcquireOk(i)
  \/ \E i \in Levels : AcquireFail(i)
  \/ \E i \in Levels : UseReturn(i)
  \/ \E i \in Levels : UseThrow(i)
  \/ CallerFinish
  \/ Halt

\* no withResource chain in this run
ResOff ==
  /\ depth = 1
  /\ hasCleanup = {}
  /\ fpc = [f \in Frames |-> "idle"]
  /\ acqLog = <<>>
  /\ relLog = <<>>
  /\ useThrew = {}
  /\ cancelledInUse = {}
  /\ obs = "none"
  /\ acqErr = 0

----------------------------------------------------------------------------
(* The Request Tracker (createRequestTracker): a channel, the Set           *)
(* activeRequests, track(), waitForCompletion() and the tracking loop.      *)

Reqs == 1..MaxReq
Settled == {"resolved", "rejected"}

\* the requests are numbered in the order in which they arrive
NextReq == Cardinality({r \in Reqs : reqState[r] # "new"}) + 1

TrkInit ==
  /\ reqState = [r \in Reqs |-> "new"]
  /\ tracked = <<>>
  /\ delivered = <<>>
  /\ activeRequests = {}
  /\ queue = <<>>
  /\ loopCur = 0
  /\ loopAlive = TRUE
  /\ wfc = "idle"
  /\ snapshot = {}
  /\ trackedAtCall = {}
  /\ trackedInWait = {}

Range(s) == {s[k] : k \in 1..Len(s)}

\* A continuation is ready to run: a promise that something awaits has
\* settled.  Timers, signals and connections are delivered by the event
\* loop only when no such continuation is left.
LoopReady == loopAlive /\ loopCur # 0 /\ reqState[loopCur] \in Settled

TrackerReady ==
  \/ LoopReady
  \/ wfc = "waiting" /\ (\E r \in snapshot : reqState[r] = "rejected")
  \/ wfc = "waiting" /\ (\A r \in snapshot : reqState[r] = "resolved")

\* *track(request) { yield* channel.send(request); }
\* The value goes to the loop's subscription.  A loop that waits in
\* subscription.next() is resumed with it at once: it adds the request to
\* activeRequests and awaits it.  A loop that awaits another request leaves
\* the value in the subscription's queue.  With no subscriber it is dropped.
TrackSend(r) ==
  /\ tracked' = Append(tracked, r)
  /\ IF ~loopAlive
     THEN UNCHANGED <<activeRequests, queue, loopCur, delivered>>
     ELSE IF loopCur = 0
     THEN /\ activeRequests' = activeRequests \cup {r}
          /\ loopCur' = r
          /\ delivered' = Append(delivered, r)
          /\ queue' = queue
     ELSE /\ queue' = Append(queue, r)
          /\ UNCHANGED <<activeRequests, loopCur, delivered>>
  /\ trackedInWait' = IF wfc = "waiting" THEN trackedInWait \cup {r}
                      ELSE trackedInWait
  /\ UNCHANGED <<loopAlive, wfc, snapshot, trackedAtCall>>

\* What the loop does after `finally { activeRequests.delete(request) }`
\* when the awaited request resolved: it waits in next(), or takes the next
\* queued value, adds it to the Set and awaits it.  <<Set, queue, current>>
LoopNext(q) ==
  IF q = <<>>
  THEN <<activeRequests \ {loopCur}, <<>>, 0>>
  ELSE <<(activeRequests \ {loopCur}) \cup {Head(q)}, Tail(q), Head(q)>>

\* The awaited request has settled: `yield* call(() => request)` returns or
\* throws.  finally deletes it from the Set.  A rejection leaves the loop
\* (nothing catches it): the loop ends and its subscription is gone.
LoopResume ==
  /\ LoopReady
  /\ IF reqState[loopCur] = "resolved"
     THEN /\ activeRequests' = LoopNext(queue)[1]
          /\ queue' = LoopNext(queue)[2]
          /\ loopCur' = LoopNext(queue)[3]
          /\ delivered' = IF queue = <<>> THEN delivered
                          ELSE Append(delivered, Head(queue))
          /\ loopAlive' = TRUE
     ELSE /\ activeRequests' = activeRequests \ {loopCur}
          /\ queue' = <<>>
          /\ loopCur' = 0
          /\ delivered' = delivered
          /\ loopAlive' = FALSE
  /\ UNCHANGED <<reqState, tracked, wfc, snapshot, trackedAtCall, trackedInWait>>
  /\ UNCHANGED <<resVars, srvVars, extVars>>

\* *waitForCompletion() { if (activeRequests.size > 0) {
\*    yield* call(() => Promise.all(Array.from(activeRequests))); } }
\* The promises it waits for: those in the Set at the time of the call.
WaitSet == activeRequests

\* waitForCompletion() is entered.
WaitEnter ==
  /\ snapshot' = WaitSet
  /\ wfc' = IF WaitSet # {} THEN "waiting" ELSE "returned"
  /\ trackedAtCall' = Range(tracked)

\* Promise.all settles: rejected as soon as one promise of the snapshot is,
\* resolved when all of them are.  waitForCompletion() then returns or
\* throws (an `if`, not a loop: the Set is not looked at again).  The loop
\* registered its continuation on the promise first, so the loop runs first.
WaitResume ==
  /\ wfc = "waiting"
  /\ ~LoopReady
  /\ \/ /\ \E r \in snapshot : reqState[r] = "rejected"
        /\ wfc' = "failed"
     \/ /\ \A r \in snapshot : reqState[r] = "resolved"
        /\ wfc' = "returned"
  /\ UNCHANGED <<reqState, tracked, delivered, activeRequests, queue, loopCur, loopAlive,
                 snapshot, trackedAtCall, trackedInWait>>
  /\ UNCHANGED <<resVars, srvVars, extVars>>

\* A request's promise settles.
Settle(r, outcome) ==
  /\ reqState[r] = "pending"
  /\ reqState' = [reqState EXCEPT ![r] = outcome]
  /\ UNCHANGED <<tracked, delivered, activeRequests, queue, loopCur, loopAlive, wfc,
                 snapshot, trackedAtCall, trackedInWait>>

----------------------------------------------------------------------------
(* The tracker on its own: a client passes promises to track() and calls   *)
(* waitForCompletion() once, at any time.                                  *)

SrvOff ==
  /\ draft = "lib"
  /\ srvPc = "off"
  /\ accepting = FALSE
  /\ received = ""
  /\ sigBuffered = 0
  /\ sigAfterStop = FALSE
  /\ iterations = 0
  /\ warnCount = 0
  /\ deadlineExpired = FALSE
  /\ pendingAtDeadline = {}
  /\ forced = FALSE

ClientTrack(r) ==
  /\ r = NextReq
  /\ ~TrackerReady
  /\ reqState' = [reqState EXCEPT ![r] = "pending"]
  /\ TrackSend(r)
  /\ UNCHANGED <<resVars, srvVars, extVars>>

ClientWait ==
  /\ wfc = "idle"
  /\ ~TrackerReady
  /\ WaitEnter
  /\ UNCHANGED <<reqState, tracked, delivered, activeRequests, queue, loopCur, loopAlive,
                 trackedInWait>>
  /\ UNCHANGED <<resVars, srvVars, extVars>>

ClientSettle(r) ==
  /\ ~TrackerReady
  /\ \E outcome \in Settled : Settle(r, outcome)
  /\ UNCHANGED <<resVars, srvVars, extVars>>

TrkNext ==
  \/ \E r \in Reqs : ClientTrack(r)
  \/ \E r \in Reqs : ClientSettle(r)
  \/ ClientWait
  \/ LoopResume
  \/ WaitResume

InitTracker == ResOff /\ TrkInit /\ SrvOff /\ ExtOff

SpecTracker == InitTracker /\ [][TrkNext]_vars

----------------------------------------------------------------------------
(* createServer, from the point where Deno.serve has been called and the   *)
(* sequence waits in subscription.next() for a value on the signal channel *)
(* (src/lib/server.ts:356-380, unnamed/part_004:300-327).                  *)

Signals == {"SIGINT", "SIGTERM"}

\* useTaskScheduler's options.maxIterations as createServer passes it:
\* { delay: config.shutdownTimeout } has none (0 stands for undefined).
ShutdownMaxIterations == 0

SrvInit ==
  /\ draft \in {"lib", "p004"}
  /\ srvPc = "await_signal"
  /\ accepting = TRUE
  /\ received = ""
  /\ sigBuffered = 0
  /\ sigAfterStop = FALSE
  /\ iterations = 0
  /\ warnCount = 0
  /\ deadlineExpired = FALSE
  /\ pendingAtDeadline = {}
  /\ forced = FALSE

\* Running until a signal value was read, Draining while the sequence waits,
\* Stopped once "Server has been shut down gracefully." was logged.
OrchState ==
  IF srvPc \in {"sched_delay", "sched_sleep", "race"} THEN "Draining"
  ELSE IF srvPc = "done" THEN "Stopped"
  ELSE "Running"

\* the promise of main(waitForCompletion) has settled: Promise.race settles
RaceReady == srvPc = "race" /\ wfc \in {"returned", "failed"} /\ ~LoopReady

SrvReady == TrackerReady \/ RaceReady

Pending == {r \in Range(tracked) : reqState[r] = "pending"}

\* Deno.serve's handler: a promise for the response is created, passed to
\* requestTracker.track() in a task of its own, and returned.
Accept(r) ==
  /\ srvPc # "off" /\ accepting
  /\ r = NextReq
  /\ ~SrvReady
  /\ reqState' = [reqState EXCEPT ![r] = "pending"]
  /\ TrackSend(r)
  /\ UNCHANGED <<resVars, srvVars, extVars>>

\* a connection attempt after server.shutdown()
Refuse(r) ==
  /\ srvPc # "off" /\ ~accepting
  /\ r = NextReq
  /\ ~SrvReady
  /\ reqState' = [reqState EXCEPT ![r] = "refused"]
  /\ UNCHANGED <<tracked, delivered, activeRequests, queue, loopCur, loopAlive, wfc,
                 snapshot, trackedAtCall, trackedInWait>>
  /\ UNCHANGED <<resVars, srvVars, extVars>>

\* The handler chain resolves the response promise.  handleRequest (retry
\* over fallback) turns every failure into a 500 response, so the promise
\* is not rejected.
Respond(r) ==
  /\ srvPc # "off"
  /\ ~SrvReady
  /\ Settle(r, "resolved")
  /\ UNCHANGED <<resVars, srvVars, extVars>>

\* a sequence that reads the signal channel again after it has ended
SignalResumes_Again == srvPc \in {"await_signal", "done"}

\* The sequence calls subscription.next() once: only that call is resumed
\* by a value on the signal channel.
SignalResumes == srvPc = "await_signal"

\* a shutdown() that leaves the listener open
ServerShutdown_Noop(acc) == acc

\* server.shutdown(): no new connection is accepted.
ServerShutdown(acc) == FALSE

\* if (!result.done) { ...; server.shutdown(); <wait> }
\* lib:  yield* useTaskScheduler(shutdownTimeout, warn, {delay: shutdownTimeout})
\*       starts with sleep(options.delay).
\* p004: a timer is set and waitForCompletion() is started in a main() task;
\*       the sequence waits for Promise.race of the two.
HandleSignal(sig) ==
  /\ received' = sig
  /\ accepting' = ServerShutdown(accepting)
  /\ iterations' = 0
  /\ IF draft = "lib"
     THEN /\ srvPc' = "sched_delay"
          /\ UNCHANGED <<wfc, snapshot, trackedAtCall>>
     ELSE /\ srvPc' = "race"
          /\ WaitEnter
  /\ UNCHANGED <<sigBuffered, sigAfterStop, warnCount, deadlineExpired,
                 pendingAtDeadline, forced>>

\* A task runs the operation channel.send(sig): the value is sent on the
\* signal channel.
SignalSend(sig) ==
  /\ srvPc # "off"
  /\ ~SrvReady
  /\ sigBuffered + (IF received = "" THEN 0 ELSE 1) < MaxSignals
  /\ IF SignalResumes
     THEN HandleSignal(sig)
     ELSE /\ sigBuffered' = sigBuffered + 1
          /\ sigAfterStop' = (sigAfterStop \/ srvPc = "done")
          /\ UNCHANGED <<srvPc, accepting, received, iterations, warnCount,
                         deadlineExpired, pendingAtDeadline, forced, wfc, snapshot,
                         trackedAtCall>>
  /\ UNCHANGED <<draft, reqState, tracked, delivered, activeRequests, queue, loopCur, loopAlive,
                 trackedInWait>>
  /\ UNCHANGED <<resVars, extVars>>

\* if (options?.maxIterations && iterations >= options.maxIterations) break;
SchedulerStops(n) == ShutdownMaxIterations # 0 /\ n >= ShutdownMaxIterations

\* lib: the scheduler's sleep ends.  operation() logs the warning,
\* iterations++, and unless the loop breaks it sleeps for `interval` again.
\* After the loop "Server has been shut down gracefully." is logged.
SchedulerTick ==
  /\ draft = "lib"
  /\ srvPc \in {"sched_delay", "sched_sleep"}
  /\ ~SrvReady
  /\ iterations < MaxIter
  /\ deadlineExpired' = TRUE
  /\ pendingAtDeadline' = IF srvPc = "sched_delay" THEN Pending ELSE pendingAtDeadline
  /\ warnCount' = warnCount + 1
  /\ iterations' = iterations + 1
  /\ srvPc' = IF SchedulerStops(iterations + 1) THEN "done" ELSE "sched_sleep"
  /\ forced' = (forced \/ SchedulerStops(iterations + 1))
  /\ UNCHANGED <<draft, accepting, received, sigBuffered, sigAfterStop>>
  /\ UNCHANGED <<resVars, trkVars, extVars>>

\* p004: setTimeout rejects timeoutPromise first: Promise.race rejects, the
\* catch block logs the warning, then "shut down gracefully" is logged.
DrainTimeout ==
  /\ draft = "p004"
  /\ srvPc = "race"
  /\ ~SrvReady
  /\ deadlineExpired' = TRUE
  /\ pendingAtDeadline' = Pending
  /\ warnCount' = warnCount + 1
  /\ forced' = TRUE
  /\ srvPc' = "done"
  /\ accepting' = ServerShutdown(accepting)
  /\ UNCHANGED <<draft, received, sigBuffered, sigAfterStop, iterations>>
  /\ UNCHANGED <<resVars, trkVars, extVars>>

\* p004: the main() task of waitForCompletion() settles first.  Resolved:
\* the sequence goes on.  Rejected: the catch block logs the warning.
DrainSettled ==
  /\ draft = "p004"
  /\ RaceReady
  /\ warnCount' = IF wfc = "failed" THEN warnCount + 1 ELSE warnCount
  /\ srvPc' = "done"
  /\ accepting' = ServerShutdown(accepting)
  /\ UNCHANGED <<draft, received, sigBuffered, sigAfterStop, iterations,
                 deadlineExpired, pendingAtDeadline, forced>>
  /\ UNCHANGED <<resVars, trkVars, extVars>>

\* Deno calls the listener registered for the signal:
\*   SIGINT: () => channel.send("SIGINT")
\* channel.send(value) only builds an Operation; the value goes on the
\* channel when the operation is run (yield* in a task, as track() does).
\* The listener returns the operation to Deno, which drops it: nothing is
\* sent, and the sequence that waits in subscription.next() is not resumed.
OsSignal(sig) ==
  /\ srvPc # "off"
  /\ ~SrvReady
  /\ osReceived < MaxSignals
  /\ osReceived' = osReceived + 1
  /\ unrunSends' = unrunSends + 1
  /\ UNCHANGED <<coreVars, notSig>>

SrvNext ==
  \/ \E sig \in Signals : OsSignal(sig)
  \/ \E r \in Reqs : Accept(r)
  \/ \E r \in Reqs : Refuse(r)
  \/ \E r \in Reqs : Respond(r)
  \/ \E sig \in Signals : SignalSend(sig)
  \/ LoopResume
  \/ WaitResume
  \/ SchedulerTick
  \/ DrainTimeout
  \/ DrainSettled

InitShutdown == ResOff /\ TrkInit /\ SrvInit /\ ExtOff

SpecShutdown == InitShutdown /\ [][SrvNext]_vars

InitResource == ResInit /\ TrkInit /\ SrvOff /\ ExtOff

SpecResource == InitResource /\ [][ResNext]_vars

----------------------------------------------------------------------------
(* Tasks.  A root task whose body suspends, spawns a child and suspends    *)
(* again; the child may do the same.  spawn() is the instruction of        *)
(* src/lib/higherAPI-v2.ts; cancelTask(task) is `await task.halt()`.       *)
(* A frame ends in three stages: its body ends (by itself, or interrupted  *)
(* by abort: "closing" while its finally blocks run), then the children it *)
(* still has are destroyed, then its result is set and its Task settles.   *)

TaskInit ==
  /\ tdepth \in TFrames
  /\ kind \in [TFrames -> {"susp", "ret", "throw"}]
  /\ kind[1] = "susp"
  /\ \A f \in TFrames : f > tdepth => kind[f] = "susp"
  /\ awaitsChild \in [TFrames -> BOOLEAN]
  /\ \A f \in TFrames : (f >= tdepth \/ kind[f] # "susp") => ~awaitsChild[f]
  /\ tpc = [f \in TFrames |-> IF f = 1 THEN "s1" ELSE "idle"]
  /\ aborted = [f \in TFrames |-> FALSE]
  /\ crashed = [f \in TFrames |-> FALSE]
  /\ blockRes = [f \in TFrames |-> "none"]
  /\ tres = [f \in TFrames |-> "none"]
  /\ handle = [f \in TFrames |-> FALSE]
  /\ termLog = <<>>
  /\ relCount = [f \in TFrames |-> 0]
  /\ haltCalls = 0

\* an abort that interrupts a frame whatever its state
AbortTakesEffect_Always(f) == tpc[f] # "idle"

\* abort(): `if (!frame.aborted) { frame.aborted = true; interrupt() }`; only
\* a body that is still running can be interrupted.
AbortTakesEffect(f) == ~aborted[f] /\ tpc[f] \in {"s1", "s2"}

\* a spawn that creates the child without entering it
EnterChild_Lazy(k) == "idle"

\* child.enter(): the child's body runs at once, up to its first suspension
\* point or, if it has none, to its end.
EnterChild(k) == IF k = "susp" THEN "s1" ELSE "settled"

\* spawn(operation), executed by frame f when it resumes from s1:
\*   let child = frame.createChild(operation); child.enter();
\*   k.tail(Ok(child.getTask()));
\*   reset: result = yield* child; if (!result.ok) yield* frame.crash(result.error)
\* The caller goes on with the Task to its next suspension point.  A child
\* that threw at once has crashed the caller by then.
SpawnChild(f) ==
  /\ f < tdepth
  /\ tpc[f] = "s1"
  /\ tpc[f + 1] = "idle"
  /\ LET c == f + 1
         failedNow == kind[c] = "throw"
     IN  /\ tpc' = [tpc EXCEPT ![c] = EnterChild(kind[c]),
                               ![f] = IF failedNow THEN "closing" ELSE "s2"]
         /\ handle' = [handle EXCEPT ![c] = TRUE]
         /\ blockRes' = [blockRes EXCEPT ![c] =
                           IF kind[c] = "ret" THEN "completed"
                           ELSE IF kind[c] = "throw" THEN "failed" ELSE "none"]
         /\ tres' = [tres EXCEPT ![c] =
                           IF kind[c] = "ret" THEN "completed"
                           ELSE IF kind[c] = "throw" THEN "failed" ELSE "none"]
         /\ termLog' = IF kind[c] = "susp" THEN termLog ELSE Append(termLog, c)
         /\ aborted' = [aborted EXCEPT ![f] = failedNow]
         /\ crashed' = [crashed EXCEPT ![f] = failedNow]
  /\ UNCHANGED <<tdepth, kind, awaitsChild, relCount, haltCalls>>
  /\ UNCHANGED <<coreVars, notTask>>

\* The body of frame f has ended with `res`: its finally blocks have run,
\* frame.exited is set, and the child it still has is destroyed (aborted).
ExitFrame(f, res) ==
  /\ tpc' = [g \in TFrames |->
               IF g = f THEN "exited"
               ELSE IF g = f + 1 /\ AbortTakesEffect(g) THEN "closing"
               ELSE tpc[g]]
  /\ aborted' = [g \in TFrames |->
               IF g = f + 1 /\ AbortTakesEffect(g) THEN TRUE ELSE aborted[g]]
  /\ blockRes' = [blockRes EXCEPT ![f] = res]
  /\ relCount' = [relCount EXCEPT ![f] = @ + 1]

\* the body of f can go on from its last suspension point: it does not wait
\* for its child's task, or that task has settled
AtLastSuspension(f) ==
  \/ tpc[f] = "s1" /\ f = tdepth
  \/ tpc[f] = "s2" /\ (awaitsChild[f] => tpc[f + 1] = "settled")

BlockReturn(f) ==
  /\ AtLastSuspension(f)
  /\ ExitFrame(f, "completed")
  /\ UNCHANGED <<tdepth, kind, awaitsChild, crashed, tres, handle, termLog, haltCalls>>
  /\ UNCHANGED <<coreVars, notTask>>

BlockThrow(f) ==
  /\ AtLastSuspension(f)
  /\ ExitFrame(f, "failed")
  /\ UNCHANGED <<tdepth, kind, awaitsChild, crashed, tres, handle, termLog, haltCalls>>
  /\ UNCHANGED <<coreVars, notTask>>

\* The interrupted body of f has run its finally blocks to the end.
CloseDone(f) ==
  /\ tpc[f] = "closing"
  /\ ExitFrame(f, IF crashed[f] THEN "failed" ELSE "cancelled")
  /\ UNCHANGED <<tdepth, kind, awaitsChild, crashed, tres, handle, termLog, haltCalls>>
  /\ UNCHANGED <<coreVars, notTask>>

\* a frame that sets its result as soon as its own body has ended
SettleReady_NoWait(f) == tpc[f] = "exited"

\* A frame sets its result when its body has ended and every child has been
\* destroyed.
SettleReady(f) ==
  /\ tpc[f] = "exited"
  /\ (f < MaxTasks => tpc[f + 1] \in {"idle", "settled"})

\* The result of f is set: its Task settles.  In the spawner the
\* continuation registered by spawn runs: a failure crashes the spawner's
\* frame, whether or not the spawner awaits the Task in a try block.
FrameSettle(f) ==
  /\ SettleReady(f)
  /\ tres' = [tres EXCEPT ![f] = blockRes[f]]
  /\ termLog' = Append(termLog, f)
  /\ LET crashParent == f > 1 /\ blockRes[f] = "failed" /\ AbortTakesEffect(f - 1)
     IN  /\ tpc' = [g \in TFrames |->
                      IF g = f THEN "settled"
                      ELSE IF g = f - 1 /\ crashParent THEN "closing"
                      ELSE tpc[g]]
         /\ aborted' = [g \in TFrames |->
                      IF g = f - 1 /\ crashParent THEN TRUE ELSE aborted[g]]
         /\ crashed' = [g \in TFrames |->
                      IF g = f - 1 /\ crashParent THEN TRUE ELSE crashed[g]]
  /\ UNCHANGED <<tdepth, kind, awaitsChild, blockRes, handle, relCount, haltCalls>>
  /\ UNCHANGED <<coreVars, notTask>>

\* cancelTask(task) on the root task: task.halt() destroys its frame.
HaltTask ==
  /\ haltCalls < MaxHalts
  /\ haltCalls' = haltCalls + 1
  /\ IF AbortTakesEffect(1)
     THEN /\ tpc' = [tpc EXCEPT ![1] = "closing"]
          /\ aborted' = [aborted EXCEPT ![1] = TRUE]
     ELSE UNCHANGED <<tpc, aborted>>
  /\ UNCHANGED <<tdepth, kind, awaitsChild, crashed, blockRes, tres, handle,
                 termLog, relCount>>
  /\ UNCHANGED <<coreVars, notTask>>

TaskNext ==
  \/ \E f \in TFrames : SpawnChild(f)
  \/ \E f \in TFrames : BlockReturn(f)
  \/ \E f \in TFrames : BlockThrow(f)
  \/ \E f \in TFrames : CloseDone(f)
  \/ \E f \in TFrames : FrameSettle(f)
  \/ HaltTask

InitTask == ResOff /\ TrkInit /\ SrvOff /\ SigOff /\ TaskInit /\ RetryOff /\ FbOff /\ ToOff /\ ParOff /\ RelOff /\ CfgOff /\ SchOff /\ RtOff /\ MwOff /\ ActOff /\ UpOff

SpecTask == InitTask /\ [][TaskNext]_vars

----------------------------------------------------------------------------
(* retry(operation, maxRetries, delay) of part_001 / part_003:             *)
(*   for (let i = 0; i < maxRetries; i++) {                                *)
(*     try { return yield* operation(); }                                  *)
(*     catch (error) { lastError = error; if (delay) yield* sleep(delay); }*)
(*   }                                                                     *)
(*   throw lastError || new Error("Retry failed");                         *)
(* withRetry(operation, config) of part_002:                               *)
(*   while (attempt < maxAttempts) {                                       *)
(*     try { return yield* operation; }                                    *)
(*     catch (err) { lastError = err; attempt++; <log>;                    *)
(*       if (attempt < maxAttempts) { <delay> } }                          *)
(*   }                                                                     *)
(*   throw lastError || new Error('Retry failed');                         *)
(* <log> is yield* compute(...), <delay> is yield* effect(...).            *)

\* compute() and effect() of part_002 yield a plain object
\*   { type: ..., execute: () => autoCall(fn), description }
\* which is no instruction of effection: under effection the yield fails
\* with a TypeError.  "runs-execute" is a runtime that runs execute(), as
\* the comment "Auto-wrap in `call`" has it.
HelperFails(rt) == rt = "effection"

\* handleRequest: retry(..., 3) with the default delay
HandleRequestMaxRetries == 3

RetryInit ==
  /\ rImpl \in {"retry", "withRetry"}
  /\ rRuntime \in {"effection", "runs-execute"}
  /\ rImpl = "retry" => rRuntime = "effection"
  /\ rOp \in {"plain", "handleRequest"}
  /\ rOp = "handleRequest" => rImpl = "retry"
  /\ rMax \in (IF rOp = "handleRequest" THEN {HandleRequestMaxRetries} ELSE 0..MaxAttempts)
  /\ rDelay \in (IF rOp = "handleRequest" THEN {1} ELSE {0, 1})
  /\ primaryRuns = 0
  /\ rAnswer = <<"none", 0>>
  /\ initialDelay \in (IF rImpl = "withRetry" THEN 0..MaxInitialDelay ELSE {1})
  /\ backoffFactor \in (IF rImpl = "withRetry" THEN 0..MaxBackoffFactor ELSE {1})
  /\ maxDelay \in (IF rImpl = "withRetry" THEN 0..MaxMaxDelay ELSE {1})
  /\ delays = <<>>
  /\ rPc = "ready"
  /\ rI = 0
  /\ attempts = 0
  /\ lastErr = 0
  /\ rResult = 0
  /\ rThrown = <<"none", 0>>
  /\ evLog = <<>>

\* a loop that makes one attempt too many
MoreAttempts_OffByOne(i, max) == i <= max

\* the loop test: i < maxRetries, attempt < finalConfig.maxAttempts
MoreAttempts(i, max) == i < max

\* Whether a delay follows the failure of the attempt that raised the
\* counter to n.  retry: `if (delay)`.  withRetry: `if (attempt < maxAttempts)`
\* (its delay is computed from initialDelay and is never 0).
DelayAfterFailure(n) ==
  IF rImpl = "retry" THEN rDelay # 0 ELSE n < rMax

RECURSIVE Pow(_, _)
\* Math.pow(b, e) for whole numbers
Pow(b, e) == IF e = 0 THEN 1 ELSE b * Pow(b, e - 1)

\* Math.min
Min(a, b) == IF a <= b THEN a ELSE b

\* The delay after the failure that raised the counter to n.  retry:
\* sleep(delay).  withRetry:
\*   Math.min(initialDelay * Math.pow(backoffFactor, attempt - 1), maxDelay)
DelayLength(n) ==
  IF rImpl = "retry" THEN rDelay
  ELSE Min(initialDelay * Pow(backoffFactor, n - 1), maxDelay)

\* operation is invoked and returns a value: retry returns it.
AttemptOk ==
  /\ rPc = "ready"
  /\ rOp = "plain"
  /\ MoreAttempts(rI, rMax)
  /\ attempts' = attempts + 1
  /\ rResult' = attempts + 1
  /\ evLog' = Append(evLog, "ok")
  /\ rPc' = "returned"
  /\ UNCHANGED <<rImpl, rRuntime, rMax, rDelay, rI, lastErr, rThrown, rOp, primaryRuns, rAnswer,
                 initialDelay, backoffFactor, maxDelay, delays>>
  /\ UNCHANGED <<coreVars, notRetry>>

\* operation is invoked and throws: the catch block keeps the error and
\* starts the delay, or goes back to the loop test.
AttemptFail ==
  /\ rPc = "ready"
  /\ rOp = "plain"
  /\ MoreAttempts(rI, rMax)
  /\ attempts' = attempts + 1
  /\ lastErr' = attempts + 1
  /\ rI' = rI + 1
  /\ IF rImpl = "withRetry" /\ HelperFails(rRuntime)
     THEN \* yield* compute('log-retry-attempt', ...) throws in the catch block
          /\ evLog' = Append(evLog, "fail")
          /\ rPc' = "thrown"
          /\ rThrown' = <<"type-error", 0>>
          /\ delays' = delays
     ELSE IF DelayAfterFailure(rI + 1)
     THEN /\ evLog' = evLog \o <<"fail", "delay">>
          /\ rPc' = "sleeping"
          /\ rThrown' = rThrown
          /\ delays' = Append(delays, DelayLength(rI + 1))
     ELSE /\ evLog' = Append(evLog, "fail")
          /\ rPc' = "ready"
          /\ rThrown' = rThrown
          /\ delays' = delays
  /\ UNCHANGED <<rImpl, rRuntime, rMax, rDelay, rResult, rOp, primaryRuns, rAnswer,
                 initialDelay, backoffFactor, maxDelay>>
  /\ UNCHANGED <<coreVars, notRetry>>

\* a fallback operation that throws the error again
ErrorResponse_Rethrows(e) == <<"error", e>>

\* handleRequest's fallback operation:
\*   function* () { return new Response("Internal Server Error", { status: 500 }); }
ErrorResponse(e) == <<"value", 500>>

\* handleRequest: one pass of retry's loop over
\*   fallback(primary, function* () { return new Response(..., {status: 500}) })
\* The primary body (static lookup, route handler) returns a Response or
\* throws; fallback's catch runs the fallback operation; what comes out of
\* fallback is what retry's try block sees.
AttemptHandleRequest ==
  /\ rPc = "ready"
  /\ rOp = "handleRequest"
  /\ MoreAttempts(rI, rMax)
  /\ attempts' = attempts + 1
  /\ primaryRuns' = primaryRuns + 1
  /\ \E p \in {"value", "error"} \X (1..MaxVals) :
       LET out == IF p[1] = "error" THEN ErrorResponse(p[2]) ELSE p
       IN IF out[1] = "value"
          THEN /\ rAnswer' = out
               /\ rResult' = attempts + 1
               /\ evLog' = Append(evLog, "ok")
               /\ rPc' = "returned"
               /\ UNCHANGED <<rI, lastErr, delays>>
          ELSE /\ lastErr' = attempts + 1
               /\ rI' = rI + 1
               /\ evLog' = IF DelayAfterFailure(rI + 1)
                            THEN evLog \o <<"fail", "delay">>
                            ELSE Append(evLog, "fail")
               /\ rPc' = IF DelayAfterFailure(rI + 1) THEN "sleeping" ELSE "ready"
               /\ delays' = IF DelayAfterFailure(rI + 1)
                             THEN Append(delays, DelayLength(rI + 1))
                             ELSE delays
               /\ UNCHANGED <<rAnswer, rResult>>
  /\ UNCHANGED <<rImpl, rRuntime, rMax, rDelay, rThrown, rOp, initialDelay, backoffFactor, maxDelay>>
  /\ UNCHANGED <<coreVars, notRetry>>

\* the delay is over: back to the loop test
RetrySleepDone ==
  /\ rPc = "sleeping"
  /\ rPc' = "ready"
  /\ UNCHANGED <<rImpl, rRuntime, rMax, rDelay, rI, attempts, lastErr, rResult, rThrown, evLog,
                 rOp, primaryRuns, rAnswer, initialDelay, backoffFactor, maxDelay, delays>>
  /\ UNCHANGED <<coreVars, notRetry>>

\* throw lastError || new Error("Retry failed")
ThrownError(last) ==
  IF last # 0 THEN <<"operation error", last>> ELSE <<"Retry failed", 0>>

\* the loop is left without a success
RetryExhaust ==
  /\ rPc = "ready"
  /\ ~MoreAttempts(rI, rMax)
  /\ rThrown' = ThrownError(lastErr)
  /\ rPc' = "thrown"
  /\ UNCHANGED <<rImpl, rRuntime, rMax, rDelay, rI, attempts, lastErr, rResult, evLog,
                 rOp, primaryRuns, rAnswer, initialDelay, backoffFactor, maxDelay, delays>>
  /\ UNCHANGED <<coreVars, notRetry>>

RetryNext ==
  \/ AttemptOk
  \/ AttemptFail
  \/ AttemptHandleRequest
  \/ RetrySleepDone
  \/ RetryExhaust

InitRetry == ResOff /\ TrkInit /\ SrvOff /\ SigOff /\ TaskOff /\ RetryInit /\ FbOff /\ ToOff /\ ParOff /\ RelOff /\ CfgOff /\ SchOff /\ RtOff /\ MwOff /\ ActOff /\ UpOff

SpecRetry == InitRetry /\ [][RetryNext]_vars

----------------------------------------------------------------------------
(* fallback(operation, fallbackOperation) of part_001 / part_003:          *)
(*   try { return yield* operation(); }                                    *)
(*   catch { return yield* fallbackOperation(); }                          *)

Outcomes == {"value", "error"} \X (1..MaxVals)

FbInit ==
  /\ primOut \in Outcomes
  /\ secOut \in Outcomes
  /\ fbPc = "start"
  /\ primRuns = 0
  /\ secRuns = 0
  /\ fbOut = <<"none", 0>>

\* try { return yield* operation(); } catch {
RunPrimary ==
  /\ fbPc = "start"
  /\ primRuns' = primRuns + 1
  /\ IF primOut[1] = "value"
     THEN /\ fbOut' = primOut
          /\ fbPc' = "returned"
     ELSE /\ fbOut' = fbOut
          /\ fbPc' = "caught"
  /\ UNCHANGED <<primOut, secOut, secRuns>>
  /\ UNCHANGED <<coreVars, notFb>>

\* a catch block that reports the primary's error when the secondary fails too
CatchOutcome_KeepsFirstError(p, q) == IF q[1] = "error" THEN p ELSE q

\* catch { return yield* fallbackOperation(); }: the binding-less catch drops
\* the primary's error; the secondary's value or error is the outcome.
CatchOutcome(p, q) == q

RunSecondary ==
  /\ fbPc = "caught"
  /\ secRuns' = secRuns + 1
  /\ fbOut' = CatchOutcome(primOut, secOut)
  /\ fbPc' = IF secOut[1] = "value" THEN "returned" ELSE "thrown"
  /\ UNCHANGED <<primOut, secOut, primRuns>>
  /\ UNCHANGED <<coreVars, notFb>>

FbNext ==
  \/ RunPrimary
  \/ RunSecondary

InitFallback == ResOff /\ TrkInit /\ SrvOff /\ SigOff /\ TaskOff /\ RetryOff /\ FbInit /\ ToOff /\ ParOff /\ RelOff /\ CfgOff /\ SchOff /\ RtOff /\ MwOff /\ ActOff /\ UpOff

SpecFallback == InitFallback /\ [][FbNext]_vars

----------------------------------------------------------------------------
(* withTimeout(operation, timeoutMs) of part_002:                          *)
(*   const timeoutPromise = yield* effect('create-timeout',                *)
(*     () => new Promise((_, reject) => setTimeout(() => reject(           *)
(*       new Error(`Operation timed out after ${timeoutMs}ms`)), timeoutMs)));*)
(*   return yield* race([operation, timeoutPromise]);                      *)
(* effect(description, fn) is an operation whose generator does            *)
(*   return yield { type: 'effect', execute: () => autoCall(fn), description } *)
(* and autoCall(fn) is call(() => fn()): it waits for the promise of fn.   *)
(* The yielded object is no instruction of effection ("effection": the     *)
(* runtime fails on it with a TypeError).  A runtime that runs execute(),  *)
(* as the comment "Auto-wrap in `call`" has it ("runs-execute"), waits for *)
(* the promise, which never resolves and is rejected when the timer fires. *)
(* Either way the statement throws, and race() is not reached.             *)

ToInit ==
  /\ toRuntime \in {"effection", "runs-execute"}
  /\ toMs \in 1..MaxTime
  /\ opDur \in 1..MaxTime
  /\ toPc = "start"
  /\ now = 0
  /\ timerAt = 0
  /\ opState = "notStarted"
  /\ toErr = "none"

\* yield* effect('create-timeout', ...)
CreateTimeout ==
  /\ toPc = "start"
  /\ IF HelperFails(toRuntime)
     THEN /\ toPc' = "failed"
          /\ toErr' = "type-error"
          /\ timerAt' = timerAt
     ELSE /\ toPc' = "awaiting-timeout"
          /\ toErr' = toErr
          /\ timerAt' = now + toMs
  /\ UNCHANGED <<toRuntime, toMs, opDur, now, opState>>
  /\ UNCHANGED <<coreVars, notTo>>

\* time passes while the call waits for the promise
ToTick ==
  /\ toPc = "awaiting-timeout"
  /\ now < timerAt
  /\ now' = now + 1
  /\ UNCHANGED <<toRuntime, toMs, opDur, toPc, timerAt, opState, toErr>>
  /\ UNCHANGED <<coreVars, notTo>>

\* the setTimeout callback rejects the promise: the call throws the error
\* into withTimeout, which does not catch it
TimerFires ==
  /\ toPc = "awaiting-timeout"
  /\ now = timerAt
  /\ toPc' = "failed"
  /\ toErr' = "timeout"
  /\ UNCHANGED <<toRuntime, toMs, opDur, now, timerAt, opState>>
  /\ UNCHANGED <<coreVars, notTo>>

ToNext ==
  \/ CreateTimeout
  \/ ToTick
  \/ TimerFires

InitTimeout == ResOff /\ TrkInit /\ SrvOff /\ SigOff /\ TaskOff /\ RetryOff /\ FbOff /\ ToInit /\ ParOff /\ RelOff /\ CfgOff /\ SchOff /\ RtOff /\ MwOff /\ ActOff /\ UpOff

SpecTimeout == InitTimeout /\ [][ToNext]_vars

----------------------------------------------------------------------------
(* parallel(operations) of part_002:                                       *)
(*   const tasks = operations.map(op => spawn(op));                        *)
(*   for (const task of tasks) { results.push(yield* task); }              *)
(*   return results;                                                       *)
(* spawn(op) only builds the spawn operation; `yield* task` runs it: the   *)
(* child frame is created and entered, and the value of the yield* is the  *)
(* Task of the child (spawn is Operation<Task<T>>), not what the child     *)
(* returns.                                                                *)
(*                                                                         *)
(* withConcurrency(tasks, maxConcurrency) of part_001 and part_003:        *)
(*   for (const task of tasks) {                                           *)
(*     if (activeTasks.size >= maxConcurrency) { yield* race([...]) }      *)
(*     activeTasks.add(task); results.push(yield* task);                   *)
(*     activeTasks.delete(task); }                                         *)
(* Its argument is a list of Tasks: each of them is running (or has        *)
(* settled) when the call is made.                                         *)

ParInit ==
  /\ cImpl \in {"parallel", "withConcurrency"}
  /\ cOrigin \in (IF cImpl = "parallel" THEN {"spawn"} ELSE {"spawn", "run"})
  /\ nOps \in Ops
  /\ maxConcurrency \in (IF cImpl = "parallel" THEN {1} ELSE 0..MaxOps)
  /\ opOut \in [Ops -> {"ok", "fail"}]
  /\ \A i \in Ops : i > nOps => opOut[i] = "ok"
  /\ opSt = [i \in Ops |-> IF i > nOps THEN "none"
                           ELSE IF cImpl = "parallel" THEN "lazy" ELSE "running"]
  /\ idx = 1
  /\ activeTasks = {}
  /\ results = <<>>
  /\ cPc = "loop"
  /\ cErr = 0
  /\ firstFail = 0

\* the operations that are executing
RunningOps == {i \in Ops : opSt[i] = "running"}

\* the tasks are children of the frame that makes the call: spawn() lets a
\* failed child crash that frame
Scoped == cImpl = "parallel" \/ cOrigin = "spawn"

\* what `yield* task` evaluates to in the loop of parallel, where task is
\* spawn(op)
SpawnValue(i) == <<"task", i>>

\* parallel: results.push(yield* task)
ParSpawn ==
  /\ cImpl = "parallel"
  /\ cPc = "loop"
  /\ idx <= nOps
  /\ opSt' = [opSt EXCEPT ![idx] = "running"]
  /\ results' = Append(results, SpawnValue(idx))
  /\ idx' = idx + 1
  /\ UNCHANGED <<cImpl, cOrigin, nOps, maxConcurrency, opOut, activeTasks, cPc, cErr, firstFail>>
  /\ UNCHANGED <<coreVars, notPar>>

\* parallel: return results
ParReturn ==
  /\ cImpl = "parallel"
  /\ cPc = "loop"
  /\ idx > nOps
  /\ cPc' = "returned"
  /\ UNCHANGED <<cImpl, cOrigin, nOps, maxConcurrency, opOut, opSt, idx, activeTasks,
                 results, cErr, firstFail>>
  /\ UNCHANGED <<coreVars, notPar>>

\* the test that guards the race
RaceNeeded == Cardinality(activeTasks) >= maxConcurrency

\* withConcurrency: the head of one loop iteration, up to the next yield*
WcAdmit ==
  /\ cImpl = "withConcurrency"
  /\ cPc = "loop"
  /\ idx <= nOps
  /\ IF RaceNeeded
     THEN /\ cPc' = "racing"
          /\ activeTasks' = activeTasks
     ELSE /\ cPc' = "awaiting"
          /\ activeTasks' = activeTasks \cup {idx}
  /\ UNCHANGED <<cImpl, cOrigin, nOps, maxConcurrency, opOut, opSt, idx, results, cErr, firstFail>>
  /\ UNCHANGED <<coreVars, notPar>>

\* withConcurrency: a yield* resumes.  From the race, with the first of the
\* active tasks to settle (a race of no task at all never resumes: its action
\* body ends without resolve and suspends); from `yield* task`, with the task
\* of this iteration.
WcResume ==
  /\ cImpl = "withConcurrency"
  /\ cPc \in {"racing", "awaiting"}
  /\ IF cPc = "racing"
     THEN \E t \in activeTasks :
            /\ opSt[t] \in {"done", "failed"}
            /\ IF opSt[t] = "done"
               THEN /\ cPc' = "awaiting"
                    /\ activeTasks' = activeTasks \cup {idx}
                    /\ cErr' = cErr
               ELSE /\ cPc' = "thrown"
                    /\ activeTasks' = activeTasks
                    /\ cErr' = t
            /\ UNCHANGED <<results, idx>>
     ELSE /\ opSt[idx] \in {"done", "failed"}
          /\ IF opSt[idx] = "done"
             THEN /\ results' = Append(results, <<"value", idx>>)
                  /\ activeTasks' = activeTasks \ {idx}
                  /\ idx' = idx + 1
                  /\ cPc' = "loop"
                  /\ cErr' = cErr
             ELSE /\ cPc' = "thrown"
                  /\ cErr' = idx
                  /\ UNCHANGED <<results, activeTasks, idx>>
  /\ UNCHANGED <<cImpl, cOrigin, nOps, maxConcurrency, opOut, opSt, firstFail>>
  /\ UNCHANGED <<coreVars, notPar>>

\* withConcurrency: return results
WcReturn ==
  /\ cImpl = "withConcurrency"
  /\ cPc = "loop"
  /\ idx > nOps
  /\ cPc' = "returned"
  /\ UNCHANGED <<cImpl, cOrigin, nOps, maxConcurrency, opOut, opSt, idx, activeTasks,
                 results, cErr, firstFail>>
  /\ UNCHANGED <<coreVars, notPar>>

\* A running operation ends.  When it throws and it was spawned by the frame
\* that makes the call, spawn crashes that frame with the error: the frame's
\* generator is closed and its other children are halted.
OpSettles(i) ==
  /\ cPc # "off"
  /\ opSt[i] = "running"
  /\ IF opOut[i] = "ok"
     THEN /\ opSt' = [opSt EXCEPT ![i] = "done"]
          /\ UNCHANGED <<cPc, cErr, firstFail>>
     ELSE /\ firstFail' = IF firstFail = 0 THEN i ELSE firstFail
          /\ IF Scoped
             THEN /\ opSt' = [j \in Ops |-> IF j = i THEN "failed"
                                ELSE IF opSt[j] = "running" THEN "halted" ELSE opSt[j]]
                  /\ cPc' = "crashed"
                  /\ cErr' = i
             ELSE /\ opSt' = [opSt EXCEPT ![i] = "failed"]
                  /\ UNCHANGED <<cPc, cErr>>
  /\ UNCHANGED <<cImpl, cOrigin, nOps, maxConcurrency, opOut, idx, activeTasks, results>>
  /\ UNCHANGED <<coreVars, notPar>>

ParNext ==
  \/ ParSpawn
  \/ ParReturn
  \/ WcAdmit
  \/ WcResume
  \/ WcReturn
  \/ \E i \in Ops : OpSettles(i)

InitPar == ResOff /\ TrkInit /\ SrvOff /\ SigOff /\ TaskOff /\ RetryOff /\ FbOff /\ ToOff /\ ParInit /\ RelOff /\ CfgOff /\ SchOff /\ RtOff /\ MwOff /\ ActOff /\ UpOff

SpecPar == InitPar /\ [][ParNext]_vars

----------------------------------------------------------------------------
(* The body of withResource / useResource once acquire() has returned:     *)
(*   try { const result = yield* use(resource); yield* provide(result); }  *)
(*   finally { if (cleanup) { yield* cleanup(resource); } }                *)
(* with a use body and a cleanup that return or throw.                     *)

RelInit ==
  /\ wUse \in Outcomes
  /\ wCleanup \in Outcomes \cup {<<"absent", 0>>}
  /\ wPc = "acquired"
  /\ wInFlight = <<"none", 0>>
  /\ wCaller = <<"none", 0>>
  /\ wTeardown = <<"none", 0>>
  /\ wCleanupRuns = 0

\* How the generator is left after the finally block, entered with the
\* completion `inFlight` of the try block: a throw of cleanup is the
\* completion of the whole statement, otherwise the one in flight stays.
FinallyCompletion(inFlight, cleanup) ==
  IF cleanup[1] = "error" THEN <<"cleanup-error", cleanup[2]>> ELSE inFlight

\* const result = yield* use(resource); yield* provide(result)
WUse ==
  /\ wPc = "acquired"
  /\ IF wUse[1] = "value"
     THEN /\ wPc' = "provided"
          /\ wCaller' = wUse
          /\ wInFlight' = wInFlight
     ELSE /\ wPc' = "finally"
          /\ wInFlight' = <<"use-error", wUse[2]>>
          /\ wCaller' = wCaller
  /\ UNCHANGED <<wUse, wCleanup, wTeardown, wCleanupRuns>>
  /\ UNCHANGED <<coreVars, notRel>>

\* the finally block after a throw of use: the resource's frame fails and
\* resource() throws its error into the caller
WFinally ==
  /\ wPc = "finally"
  /\ wCleanupRuns' = IF wCleanup[1] = "absent" THEN wCleanupRuns ELSE wCleanupRuns + 1
  /\ wCaller' = FinallyCompletion(wInFlight, wCleanup)
  /\ wPc' = "failed"
  /\ UNCHANGED <<wUse, wCleanup, wInFlight, wTeardown>>
  /\ UNCHANGED <<coreVars, notRel>>

\* the caller's scope ends: return() is injected at provide and the finally
\* block runs
WClose ==
  /\ wPc = "provided"
  /\ wCleanupRuns' = IF wCleanup[1] = "absent" THEN wCleanupRuns ELSE wCleanupRuns + 1
  /\ wTeardown' = FinallyCompletion(<<"none", 0>>, wCleanup)
  /\ wPc' = "closed"
  /\ UNCHANGED <<wUse, wCleanup, wInFlight, wCaller>>
  /\ UNCHANGED <<coreVars, notRel>>

RelNext ==
  \/ WUse
  \/ WFinally
  \/ WClose

InitRel == ResOff /\ TrkInit /\ SrvOff /\ SigOff /\ TaskOff /\ RetryOff /\ FbOff /\ ToOff /\ ParOff /\ RelInit /\ CfgOff /\ SchOff /\ RtOff /\ MwOff /\ ActOff /\ UpOff

SpecRel == InitRel /\ [][RelNext]_vars

----------------------------------------------------------------------------
(* start(appRoutes) and createConfig() of src/lib/server.ts (the draft in  *)
(* unnamed/part_004 has the same statements inside resource()):            *)
(*   port: parseInt(Deno.env.get("PORT") || "8000"),                       *)
(*   shutdownTimeout: parseInt(Deno.env.get("SHUTDOWN_TIMEOUT") || "5000") *)
(*   if (isNaN(config.port) || config.port <= 0) throw ...                 *)
(*   if (isNaN(config.shutdownTimeout) || config.shutdownTimeout <= 0) ... *)
(* Environment values are strings over a small alphabet.                   *)

EnvChars == {"-", "0", "1", ".", "s"}
EnvValues == UNION {[1..n -> EnvChars] : n \in 0..MaxEnvLen}

DigitChars == {"0", "1", "2", "3", "4", "5", "6", "7", "8", "9"}
DigitVal(c) ==
  CASE c = "0" -> 0 [] c = "1" -> 1 [] c = "2" -> 2 [] c = "3" -> 3 [] c = "4" -> 4
    [] c = "5" -> 5 [] c = "6" -> 6 [] c = "7" -> 7 [] c = "8" -> 8 [] c = "9" -> 9

\* the defaults, as the strings of the source
DefaultPort == <<"8", "0", "0", "0">>
DefaultShutdownTimeout == <<"5", "0", "0", "0">>

\* value || fallback: undefined and "" are falsy
OrDefault(value, fallback) == IF value = <<>> THEN fallback ELSE value

\* the longest prefix of s made of decimal digits
RECURSIVE DigitPrefix(_)
DigitPrefix(s) ==
  IF s = <<>> \/ Head(s) \notin DigitChars THEN <<>>
  ELSE <<Head(s)>> \o DigitPrefix(Tail(s))

\* the number a sequence of decimal digits denotes
RECURSIVE DecimalValue(_)
DecimalValue(d) ==
  IF d = <<>> THEN 0
  ELSE 10 * DecimalValue(SubSeq(d, 1, Len(d) - 1)) + DigitVal(d[Len(d)])

\* parseInt(s): an optional sign, then the longest run of digits; what
\* follows the digits is ignored; NaN when there is no digit.
ParseInt(s) ==
  LET neg == s # <<>> /\ Head(s) = "-"
      rest == IF neg THEN Tail(s) ELSE s
      digits == DigitPrefix(rest)
  IN IF digits = <<>> THEN NaN ELSE Int(neg, DecimalValue(digits))

\* a test that rejects NaN only
Rejected_NaNOnly(x) == x.nan

\* isNaN(x) || x <= 0
Rejected(x) == x.nan \/ x.neg \/ x.mag = 0

CfgInit ==
  /\ envPort \in EnvValues
  /\ envShutdownTimeout \in EnvValues
  /\ routesGiven \in BOOLEAN
  /\ startPc = "start"
  /\ config = NoConfig
  /\ startErr = ""

\* if (!appRoutes || appRoutes.length === 0) throw ...
CheckRoutes ==
  /\ startPc = "start"
  /\ IF routesGiven
     THEN /\ startPc' = "create-config"
          /\ startErr' = startErr
     ELSE /\ startPc' = "failed"
          /\ startErr' = "Routes must be provided."
  /\ UNCHANGED <<envPort, envShutdownTimeout, routesGiven, config>>
  /\ UNCHANGED <<coreVars, notCfg>>

\* const config = yield* createConfig(): it returns the config, or it throws
\* and the error leaves start, which has no try around this statement
CreateConfig ==
  /\ startPc = "create-config"
  /\ LET port == ParseInt(OrDefault(envPort, DefaultPort))
         shutdownTimeout == ParseInt(OrDefault(envShutdownTimeout, DefaultShutdownTimeout))
     IN IF Rejected(port)
        THEN /\ startPc' = "failed"
             /\ startErr' = "Invalid port configuration"
             /\ config' = config
        ELSE IF Rejected(shutdownTimeout)
        THEN /\ startPc' = "failed"
             /\ startErr' = "Invalid shutdown timeout configuration"
             /\ config' = config
        ELSE /\ startPc' = "create-server"
             /\ startErr' = startErr
             /\ config' = [port |-> port, shutdownTimeout |-> shutdownTimeout]
  /\ UNCHANGED <<envPort, envShutdownTimeout, routesGiven>>
  /\ UNCHANGED <<coreVars, notCfg>>

CfgNext ==
  \/ CheckRoutes
  \/ CreateConfig

InitCfg == ResOff /\ TrkInit /\ SrvOff /\ SigOff /\ TaskOff /\ RetryOff /\ FbOff /\ ToOff /\ ParOff /\ RelOff /\ CfgInit /\ SchOff /\ RtOff /\ MwOff /\ ActOff /\ UpOff

SpecCfg == InitCfg /\ [][CfgNext]_vars

----------------------------------------------------------------------------
(* useTaskScheduler(interval, operation, options) of part_001 and          *)
(* schedule(interval, operation, options) of part_003:                     *)
(*   if (options?.delay) { yield* sleep(options.delay); }                  *)
(*   let iterations = 0;                                                   *)
(*   while (true) {                                                        *)
(*     yield* operation();      // part_001: inside try { } catch { log }  *)
(*     iterations++;                                                       *)
(*     if (options?.maxIterations && iterations >= options.maxIterations)  *)
(*       break;                                                            *)
(*     yield* sleep(interval); }                                           *)

SchInit ==
  /\ sImpl \in {"useTaskScheduler", "schedule"}
  /\ sDelay \in {0, 1}
  /\ sMaxIterations \in 0..MaxRuns
  /\ sFails \in SUBSET (1..MaxRuns)
  /\ sPc = "start"
  /\ sIterations = 0
  /\ sLog = <<>>
  /\ sCaught = {}
  /\ sErr = 0

\* if (options?.delay) { yield* sleep(options.delay); }
SchedStart ==
  /\ sPc = "start"
  /\ sPc' = IF sDelay # 0 THEN "delaying" ELSE "run"
  /\ UNCHANGED <<sImpl, sDelay, sMaxIterations, sFails, sIterations, sLog, sCaught, sErr>>
  /\ UNCHANGED <<coreVars, notSch>>

\* sleep(options.delay) is over
SchedDelayDone ==
  /\ sPc = "delaying"
  /\ sLog' = Append(sLog, "delay")
  /\ sPc' = "run"
  /\ UNCHANGED <<sImpl, sDelay, sMaxIterations, sFails, sIterations, sCaught, sErr>>
  /\ UNCHANGED <<coreVars, notSch>>

\* the catch block around `yield* operation()`
CatchesOperationError(impl) == impl = "useTaskScheduler"

\* a test that lets one more iteration through
LoopBreaks_OneLate(n) == sMaxIterations # 0 /\ n > sMaxIterations

\* if (options?.maxIterations && iterations >= options.maxIterations) break
LoopBreaks(n) == sMaxIterations # 0 /\ n >= sMaxIterations

\* one pass of the loop body, up to the break or to sleep(interval)
SchedInvoke ==
  /\ sPc = "run"
  /\ sIterations < MaxRuns
  /\ sLog' = Append(sLog, "op")
  /\ LET n == sIterations + 1
     IN IF n \in sFails /\ ~CatchesOperationError(sImpl)
        THEN /\ sPc' = "thrown"
             /\ sErr' = n
             /\ UNCHANGED <<sIterations, sCaught>>
        ELSE /\ sCaught' = IF n \in sFails THEN sCaught \cup {n} ELSE sCaught
             /\ sIterations' = n
             /\ sPc' = IF LoopBreaks(n) THEN "returned" ELSE "sleeping"
             /\ sErr' = sErr
  /\ UNCHANGED <<sImpl, sDelay, sMaxIterations, sFails>>
  /\ UNCHANGED <<coreVars, notSch>>

\* sleep(interval) is over
SchedSleepDone ==
  /\ sPc = "sleeping"
  /\ sLog' = Append(sLog, "interval")
  /\ sPc' = "run"
  /\ UNCHANGED <<sImpl, sDelay, sMaxIterations, sFails, sIterations, sCaught, sErr>>
  /\ UNCHANGED <<coreVars, notSch>>

SchNext ==
  \/ SchedStart
  \/ SchedDelayDone
  \/ SchedInvoke
  \/ SchedSleepDone

InitSch == ResOff /\ TrkInit /\ SrvOff /\ SigOff /\ TaskOff /\ RetryOff /\ FbOff /\ ToOff /\ ParOff /\ RelOff /\ CfgOff /\ SchInit /\ RtOff /\ MwOff /\ ActOff /\ UpOff

SpecSch == InitSch /\ [][SchNext]_vars

----------------------------------------------------------------------------
(* handleRequest of src/lib/server.ts (the body passed to fallback) and of *)
(* src/server/server.ts:                                                   *)
(*   try { const stat = Deno.stat(filePath);                               *)
(*         if (stat.isFile) { return serveStatic(...); } } catch { }       *)
(*   const route = matchRoute(path, method);                               *)
(*   if (route) { return route.handler(req); }                             *)
(*   return new Response("Route Not Found", { status: 404 });              *)
(* with every error turned into a 500 response (lib: fallback, server: the *)
(* outer catch).                                                           *)

Paths == {"/a", "/b"}
Methods == {"GET", "POST"}
RouteSet == [paths : (SUBSET Paths) \ {{}}, method : Methods, handler : {"responds", "throws"}]
Tables == UNION {[1..n -> RouteSet] : n \in 0..MaxRoutes}

RtInit ==
  /\ hImpl \in {"lib", "server"}
  /\ routes \in Tables
  /\ reqPath \in Paths
  /\ reqMethod \in Methods
  /\ isFile \in BOOLEAN
  /\ serve \in (IF isFile THEN {"responds", "throws"} ELSE {"responds"})
  /\ hPc = "stat"
  /\ answer = <<"none", 0>>

\* the callback of routes.find
RouteMatches(route, path, method) == path \in route.paths /\ route.method = method

\* a search that returns the last matching route
Find_Last(tbl, path, method) ==
  LET hits == {k \in 1..Len(tbl) : RouteMatches(tbl[k], path, method)}
  IN IF hits = {} THEN 0 ELSE CHOOSE k \in hits : \A j \in hits : j <= k

\* routes.find(...): the index of the first route the callback accepts
\* (0: undefined)
Find(tbl, path, method) ==
  LET hits == {k \in 1..Len(tbl) : RouteMatches(tbl[k], path, method)}
  IN IF hits = {} THEN 0 ELSE CHOOSE k \in hits : \A j \in hits : k <= j

\* The static branch.  lib: serveStatic runs inside the try, so its throw is
\* caught and route matching goes on.  server: serveStatic catches its own
\* errors and answers them itself.
StatPath ==
  /\ hPc = "stat"
  /\ IF isFile /\ (serve = "responds" \/ hImpl = "server")
     THEN /\ hPc' = "answered"
          /\ answer' = <<"static", 0>>
     ELSE /\ hPc' = "match"
          /\ answer' = answer
  /\ UNCHANGED <<hImpl, routes, reqPath, reqMethod, isFile, serve>>
  /\ UNCHANGED <<coreVars, notRt>>

\* route matching, the handler of the route found, and the 404 / 500 answers
MatchRoute ==
  /\ hPc = "match"
  /\ LET k == Find(routes, reqPath, reqMethod)
     IN answer' = IF k = 0 THEN <<"status", 404>>
                  ELSE IF routes[k].handler = "throws" THEN <<"status", 500>>
                  ELSE <<"route", k>>
  /\ hPc' = "answered"
  /\ UNCHANGED <<hImpl, routes, reqPath, reqMethod, isFile, serve>>
  /\ UNCHANGED <<coreVars, notRt>>

RtNext ==
  \/ StatPath
  \/ MatchRoute

InitRt == ResOff /\ TrkInit /\ SrvOff /\ SigOff /\ TaskOff /\ RetryOff /\ FbOff /\ ToOff /\ ParOff /\ RelOff /\ CfgOff /\ SchOff /\ RtInit /\ MwOff /\ ActOff /\ UpOff

SpecRt == InitRt /\ [][RtNext]_vars

----------------------------------------------------------------------------
(* createMiddleware of src/lib/server.ts and of unnamed/part_003:          *)
(*   return (handler) => middleware.reduceRight((acc, mw) => mw(acc),      *)
(*                                              handler);                  *)
(* A middleware takes the next handler and returns a handler that sees the *)
(* request and then calls the next one (processLoggingMiddleware,          *)
(* processSecurityHeadersMiddleware).  A handler is written as the names   *)
(* of its wrappers, outermost first, followed by "handler".                *)

MiddlewareNames == {"security", "logging", "other"}
MiddlewareLists == UNION {[1..n -> MiddlewareNames] : n \in 0..MaxMiddleware}
BaseHandler == <<"handler">>

MwInit ==
  /\ mImpl \in {"lib", "p003"}
  /\ middleware \in MiddlewareLists
  /\ mPc = "start"
  /\ composed = <<>>
  /\ seen = <<>>

\* mw(acc): the handler that runs mw around acc
Wrap(mw, acc) == <<mw>> \o acc

\* a fold that starts at the first element
RECURSIVE ReduceRight_FromLeft(_, _)
ReduceRight_FromLeft(ms, acc) ==
  IF ms = <<>> THEN acc
  ELSE ReduceRight_FromLeft(Tail(ms), Wrap(Head(ms), acc))

\* middleware.reduceRight((acc, mw) => mw(acc), handler): the callback is
\* applied to the last element first; an empty array gives the initial value
RECURSIVE ReduceRight(_, _)
ReduceRight(ms, acc) ==
  IF ms = <<>> THEN acc
  ELSE ReduceRight(SubSeq(ms, 1, Len(ms) - 1), Wrap(ms[Len(ms)], acc))

\* what the function createMiddleware returned does with a handler
\* (lib: the empty list has a branch of its own)
Compose(impl, ms, handler) ==
  IF impl = "lib" /\ Len(ms) = 0 THEN handler ELSE ReduceRight(ms, handler)

\* createMiddleware(...middleware): returns the composing function
CreateMiddleware ==
  /\ mPc = "start"
  /\ mPc' = "created"
  /\ UNCHANGED <<mImpl, middleware, composed, seen>>
  /\ UNCHANGED <<coreVars, notMw>>

\* createMiddleware(...)(handler)
ApplyToHandler ==
  /\ mPc = "created"
  /\ composed' = Compose(mImpl, middleware, BaseHandler)
  /\ mPc' = "composed"
  /\ UNCHANGED <<mImpl, middleware, seen>>
  /\ UNCHANGED <<coreVars, notMw>>

\* a request is handed to the composed handler: its outermost layer sees it
CallHandler ==
  /\ mPc = "composed"
  /\ seen' = <<composed[1]>>
  /\ mPc' = IF Len(composed) = 1 THEN "done" ELSE "called"
  /\ UNCHANGED <<mImpl, middleware, composed>>
  /\ UNCHANGED <<coreVars, notMw>>

\* the layer that has the request calls next(req)
CallNext ==
  /\ mPc = "called"
  /\ seen' = Append(seen, composed[Len(seen) + 1])
  /\ mPc' = IF Len(seen) + 1 = Len(composed) THEN "done" ELSE "called"
  /\ UNCHANGED <<mImpl, middleware, composed>>
  /\ UNCHANGED <<coreVars, notMw>>

MwNext ==
  \/ CreateMiddleware
  \/ ApplyToHandler
  \/ CallHandler
  \/ CallNext

InitMw == ResOff /\ TrkInit /\ SrvOff /\ SigOff /\ TaskOff /\ RetryOff /\ FbOff /\ ToOff /\ ParOff /\ RelOff /\ CfgOff /\ SchOff /\ RtOff /\ MwInit /\ ActOff /\ UpOff

SpecMw == InitMw /\ [][MwNext]_vars

----------------------------------------------------------------------------
(* action(operation) of src/lib/higherAPI-v2.ts:                           *)
(*   settle = reset { result = shiftSync(k => k.tail);                     *)
(*                    destruction = yield* child.destroy();                *)
(*                    k.tail(destruction.ok ? result : destruction) }      *)
(*   child = frame.createChild { yield* operation(resolve, reject);        *)
(*                               yield* suspend() }                        *)
(*   reset { result = yield* child; if (!result.ok) k.tail(result) }       *)
(*   child.enter()                                                         *)
(* What child.destroy() does is the frame runtime's: it interrupts the     *)
(* body, whose finally blocks run, and gives Ok or the error they threw.   *)

\* the error a throwing finally block throws (the others are 1..MaxVals)
TeardownError == MaxVals + 1

ActInit ==
  /\ aHow \in {"resolve", "reject", "throw", "none"}
  /\ aSync \in (IF aHow \in {"resolve", "reject"} THEN BOOLEAN ELSE {FALSE})
  /\ aValue \in 1..MaxVals
  /\ aTeardown \in {"none", "ok", "throws"}
  /\ aPc = "start"
  /\ aChild = "none"
  /\ aSettled = <<"none", 0>>
  /\ aDestruction = <<"none", 0>>
  /\ aTeardownRan = FALSE
  /\ aOut = <<"none", 0>>

\* resolve(value) is settle(Ok(value)), reject(error) is settle(Err(error))
SettledWith(how, v) == IF how = "resolve" THEN <<"ok", v>> ELSE <<"err", v>>

\* The caller yields the action: the child frame is created and entered and
\* the body runs.  It settles at once, throws, or ends, after which the child
\* stays in suspend().  settle(...) goes on to child.destroy(), a throw
\* crashes the child: both close the child frame.
ActionEnter ==
  /\ aPc = "start"
  /\ aPc' = "waiting"
  /\ IF aHow \in {"resolve", "reject"} /\ aSync
     THEN /\ aSettled' = SettledWith(aHow, aValue)
          /\ aChild' = "closing"
     ELSE IF aHow = "throw"
     THEN /\ aSettled' = aSettled
          /\ aChild' = "closing"
     ELSE /\ aSettled' = aSettled
          /\ aChild' = "suspended"
  /\ UNCHANGED <<aHow, aSync, aValue, aTeardown, aDestruction, aTeardownRan, aOut>>
  /\ UNCHANGED <<coreVars, notAct>>

\* a callback the body installed calls resolve or reject
ActionSettle ==
  /\ aPc = "waiting"
  /\ aChild = "suspended"
  /\ aHow \in {"resolve", "reject"}
  /\ aSettled' = SettledWith(aHow, aValue)
  /\ aChild' = "closing"
  /\ UNCHANGED <<aHow, aSync, aValue, aTeardown, aPc, aDestruction, aTeardownRan, aOut>>
  /\ UNCHANGED <<coreVars, notAct>>

\* The child frame closes: the finally block of the body runs.  The Result
\* is the error it threw; else, for a body that threw, that error; else Ok.
ChildDestroyed ==
  /\ aChild = "closing"
  /\ aTeardownRan' = (aTeardown # "none")
  /\ aDestruction' = IF aTeardown = "throws" THEN <<"err", TeardownError>>
                      ELSE IF aHow = "throw" THEN <<"err", aValue>>
                      ELSE <<"ok", 0>>
  /\ aChild' = "destroyed"
  /\ UNCHANGED <<aHow, aSync, aValue, aTeardown, aPc, aSettled, aOut>>
  /\ UNCHANGED <<coreVars, notAct>>

\* a caller that is resumed as soon as the action is settled
ResumeReady_OnSettle == aSettled # <<"none", 0>> \/ aChild = "destroyed"

\* k.tail is called after `yield* child.destroy()` and after `yield* child`
ResumeReady == aChild = "destroyed"

\* if (!destruction.ok) k.tail(destruction) else k.tail(result); for a child
\* that ended by itself, k.tail(result) of the failed child
ActionResult(result, destruction) ==
  IF destruction[1] = "err" THEN destruction ELSE result

\* the caller goes on at the yield of the action
ActionResume ==
  /\ aPc = "waiting"
  /\ ResumeReady
  /\ aOut' = ActionResult(aSettled, aDestruction)
  /\ aPc' = "resumed"
  /\ UNCHANGED <<aHow, aSync, aValue, aTeardown, aChild, aSettled, aDestruction, aTeardownRan>>
  /\ UNCHANGED <<coreVars, notAct>>

ActNext ==
  \/ ActionEnter
  \/ ActionSettle
  \/ ChildDestroyed
  \/ ActionResume

InitAct == ResOff /\ TrkInit /\ SrvOff /\ SigOff /\ TaskOff /\ RetryOff /\ FbOff /\ ToOff /\ ParOff /\ RelOff /\ CfgOff /\ SchOff /\ RtOff /\ MwOff /\ ActInit /\ UpOff

SpecAct == InitAct /\ [][ActNext]_vars

----------------------------------------------------------------------------
(* Start-up: createServer calls createRequestTracker() first.              *)
(* lib:  useResource(acquire, use) runs `use`, the tracking loop, before   *)
(*       provide: `use` waits in subscription.next() for a value only the  *)
(*       Deno.serve callback sends.                                        *)
(* p004: resource { try { yield* provide(tracker);                         *)
(*                        yield* trackingHandler(); } finally {...} }      *)
(*       provide gives the tracker to the caller and suspends until the    *)
(*       caller's scope ends: trackingHandler() is not reached before.     *)

UpInit ==
  /\ uDraft \in {"lib", "p004"}
  /\ uPc = "start"
  /\ uTracker = FALSE
  /\ uLoop = "none"
  /\ uReq = [r \in Reqs |-> "idle"]
  /\ uSent = <<>>
  /\ uActive = {}

\* useResource: `yield* use(resource)` comes before `yield* provide(result)`
LoopBeforeProvide(d) == d = "lib"

\* createServer up to the first point where it waits.  lib: inside
\* createRequestTracker, in the loop's subscription.next().  p004: the
\* tracker, the mime types, the router and the signal handler are provided,
\* Deno.serve is called, and createServer waits for a signal.
CreateServer ==
  /\ uPc = "start"
  /\ IF LoopBeforeProvide(uDraft)
     THEN /\ uLoop' = "waiting"
          /\ uTracker' = FALSE
          /\ uPc' = "in_tracker"
     ELSE /\ uLoop' = "none"
          /\ uTracker' = TRUE
          /\ uPc' = "serving"
  /\ UNCHANGED <<uDraft, uReq, uSent, uActive>>
  /\ UNCHANGED <<coreVars, notUp>>

\* The Deno.serve callback: the response promise is created and
\* requestTracker.track(responsePromise) sends it on the channel.  A channel
\* keeps nothing: the value reaches a loop that waits in next(), which adds
\* it to activeRequests and awaits it.
ServeRequest(r) ==
  /\ uPc = "serving"
  /\ uReq[r] = "idle"
  /\ uReq' = [uReq EXCEPT ![r] = "pending"]
  /\ uSent' = Append(uSent, r)
  /\ IF uLoop = "waiting"
     THEN /\ uActive' = uActive \cup {r}
          /\ uLoop' = "busy"
     ELSE UNCHANGED <<uActive, uLoop>>
  /\ UNCHANGED <<uDraft, uPc, uTracker>>
  /\ UNCHANGED <<coreVars, notUp>>

\* the response promise settles; a loop that awaits it deletes it and goes
\* back to next() (resolved) or ends (rejected)
ResponseSettles(r, outcome) ==
  /\ uReq[r] = "pending"
  /\ uReq' = [uReq EXCEPT ![r] = outcome]
  /\ IF uLoop = "busy" /\ r \in uActive
     THEN /\ uActive' = uActive \ {r}
          /\ uLoop' = IF outcome = "resolved" THEN "waiting" ELSE "none"
     ELSE UNCHANGED <<uActive, uLoop>>
  /\ UNCHANGED <<uDraft, uPc, uTracker, uSent>>
  /\ UNCHANGED <<coreVars, notUp>>

UpNext ==
  \/ CreateServer
  \/ \E r \in Reqs : ServeRequest(r)
  \/ \E r \in Reqs : \E outcome \in Settled : ResponseSettles(r, outcome)

InitUp == ResOff /\ TrkInit /\ SrvOff /\ SigOff /\ TaskOff /\ RetryOff /\ FbOff /\ ToOff /\ ParOff /\ RelOff /\ CfgOff /\ SchOff /\ RtOff /\ MwOff /\ ActOff /\ UpInit

SpecUp == InitUp /\ [][UpNext]_vars

----------------------------------------------------------------------------
Count(x, s) == Cardinality({k \in 1..Len(s) : s[k] = x})

\* C1: whenever use threw, or the task was cancelled while use was running,
\* and the caller has observed the error or the cancellation, the cleanup
\* passed to that withResource call has been invoked exactly once; and no
\* cleanup is ever invoked twice.
C1_ReleaseExactlyOnce ==
  /\ \A i \in Levels : Count(i, relLog) <= 1
  /\ \A i \in hasCleanup :
       (i \in useThrew \cup cancelledInUse /\ obs \in {"error", "cancelled"})
         => Count(i, relLog) = 1

C1_Witness ==
  /\ depth >= 2
  /\ 1 \in hasCleanup /\ 2 \in hasCleanup
  /\ 1 \in cancelledInUse /\ 2 \in cancelledInUse
  /\ obs = "cancelled"
  /\ Count(1, relLog) = 1 /\ Count(2, relLog) = 1

\* C2: the cleanups run in the exact reverse of the order of the acquires:
\* of two resources of a chain, the inner (later acquired) one is released
\* first, on every exit path.
C2_ReleaseReverseOfAcquire ==
  \A m, n \in 1..Len(relLog) : m < n => relLog[m] > relLog[n]

Rank(st) == IF st = "Running" THEN 0 ELSE IF st = "Draining" THEN 1 ELSE 2

\* C3: the orchestrator's state never moves back (Running, then Draining,
\* then Stopped), and once it is Stopped no step - a further signal value
\* included - changes where the sequence stands, reopens the listener or
\* logs another warning.
C3_StateMonotonic ==
  [][ /\ Rank(OrchState') >= Rank(OrchState)
      /\ OrchState = "Stopped"
           => UNCHANGED <<srvPc, accepting, received, iterations, warnCount, forced>>
    ]_vars

C3_Witness ==
  /\ OrchState = "Stopped"
  /\ sigAfterStop
  /\ sigBuffered >= 1

\* C4: once the shutdownTimeout deadline has expired with a tracked request
\* still unsettled, the orchestrator is Stopped: it does not wait further.
C4_StoppedAtDeadline ==
  (deadlineExpired /\ pendingAtDeadline # {}) => OrchState = "Stopped"

\* C5: when every tracked request had settled before the deadline, the
\* forced path is not taken: no timeout warning is logged.
C5_CleanDrainNoWarning ==
  (deadlineExpired /\ pendingAtDeadline = {}) => (warnCount = 0 /\ ~forced)

C7_WaitCoversTrackedBefore ==
  wfc = "returned" => \A r \in trackedAtCall : reqState[r] \in Settled

\* C8: when waitForCompletion() has returned, every request that was passed
\* to track() while it was waiting has settled.
C8_WaitCoversTrackedDuring ==
  wfc = "returned" => \A r \in trackedInWait : reqState[r] \in Settled

\* C9: a request passed to track() is in the active set for as long as it
\* is unsettled, and is out of it once it has settled (and the
\* continuations of that settlement have run).
C9_ActiveFromTrackToSettle ==
  \A r \in Range(tracked) :
    /\ reqState[r] = "pending" => r \in activeRequests
    /\ (reqState[r] \in Settled /\ ~TrackerReady) => r \notin activeRequests

\* C10: from the step that enters Draining on, the server accepts nothing:
\* the listener is closed in that very step, before any waiting, and a
\* connection that arrives while Draining or Stopped is never accepted.
C10_NoAcceptOnceDraining ==
  [][ OrchState' # "Running"
        => /\ ~accepting'
           /\ \A r \in Reqs : reqState[r] = "new" => reqState'[r] \in {"new", "refused"}
    ]_vars

C10_Witness ==
  /\ OrchState = "Draining"
  /\ \E r \in Reqs : reqState[r] = "refused"
  /\ \E r \in Reqs : reqState[r] = "pending"

\* C11: an OS signal delivered to the listeners while the sequence is
\* Running is sent on the signal channel (its send operation is run) and
\* takes the sequence out of Running.
C11_SignalReachesChannel ==
  osReceived > 0 => (unrunSends = 0 /\ OrchState # "Running")

\* C12: a frame's Task settles only after every frame spawned under it has
\* settled: no Task is reported Cancelled (or ended in any way) while a
\* descendant is still running, and the frames settle innermost first.
C12_DescendantsSettleFirst ==
  /\ \A f, g \in TFrames :
       (f < g /\ tpc[f] = "settled") => tpc[g] \in {"idle", "settled"}
  /\ \A m, n \in 1..Len(termLog) : m < n => termLog[m] > termLog[n]

C12_Witness ==
  /\ haltCalls >= 1
  /\ \A f \in 1..3 : tpc[f] = "settled" /\ tres[f] = "cancelled"
  /\ SubSeq(termLog, 1, 3) = <<3, 2, 1>>

\* C13: cancelTask on a task that has settled changes nothing (state, result,
\* releases), a second cancelTask on a task already being cancelled changes
\* nothing either, and no body's finally blocks run twice.
C13_CancelIdempotent ==
  [][ /\ tpc[1] = "settled"
           => (tpc' = tpc /\ tres' = tres /\ relCount' = relCount /\ termLog' = termLog)
      /\ (haltCalls' # haltCalls /\ aborted[1])
           => (tpc' = tpc /\ tres' = tres /\ relCount' = relCount /\ termLog' = termLog)
      /\ \A f \in TFrames : relCount'[f] <= 1
    ]_vars

C13_Witness ==
  /\ haltCalls = 2
  /\ tpc[1] = "settled"
  /\ tres[1] \in {"completed", "failed"}
  /\ relCount[1] = 1

\* C14: a spawned child that failed has crashed its spawner, unless the
\* spawner was awaiting the child's Task in a try block when it failed and
\* handled the error: then the spawner is not crashed.
C14_FailureEscalatesUnlessHandled ==
  \A c \in 2..MaxTasks :
    tres[c] = "failed" =>
      IF awaitsChild[c - 1] /\ kind[c] = "susp"
      THEN ~crashed[c - 1]
      ELSE crashed[c - 1] \/ aborted[c - 1] \/ tpc[c - 1] \in {"exited", "settled"}

\* C15: in the step in which spawn hands the Task to the caller the child
\* has been entered; a child with a suspension point stands at its first one,
\* unsettled, and the caller has gone on to its own next suspension point.
C15_SpawnRunsChildToSuspension ==
  [][ \A c \in 2..MaxTasks :
        (~handle[c] /\ handle'[c])
          => /\ tpc'[c] # "idle"
             /\ kind[c] = "susp"
                  => (tpc'[c] = "s1" /\ tres'[c] = "none" /\ tpc'[c - 1] = "s2")
    ]_vars

C15_Witness ==
  /\ handle[2]
  /\ tpc[2] = "s1" /\ tres[2] = "none"
  /\ tpc[1] = "s2"

\* C16: retry invokes operation at most maxAttempts times; when it returns,
\* the value is that of the one successful attempt, every attempt before it
\* failed, and the success is the last thing that happened.
C16_RetryStopsAtSuccess ==
  /\ attempts <= rMax
  /\ Count("ok", evLog) <= 1
  /\ Count("ok", evLog) = 1 => rPc = "returned"
  /\ rPc = "returned"
       => /\ evLog[Len(evLog)] = "ok"
          /\ rResult = attempts
          /\ Count("fail", evLog) = attempts - 1

C16_Witness ==
  /\ rPc = "returned"
  /\ attempts = 2
  /\ rResult = 2
  /\ rMax = 3

\* C17: when all maxAttempts attempts were made and failed and a delay was
\* asked for, exactly maxAttempts - 1 delays were made and none follows the
\* last failure.
C17_DelaysBetweenAttempts ==
  (rPc = "thrown" /\ rMax >= 1 /\ attempts = rMax /\ rThrown[1] # "type-error"
     /\ (rImpl = "retry" => rDelay # 0))
    => /\ Count("delay", evLog) = rMax - 1
       /\ evLog[Len(evLog)] = "fail"

\* C18: when all maxAttempts attempts were made and failed, the error thrown
\* to the caller is a "Retry failed" error that wraps the error of the last
\* attempt, not the operation's own error.
C18_ThrowsRetryExhausted ==
  (rPc = "thrown" /\ attempts >= 1 /\ attempts = rMax /\ rThrown[1] # "type-error")
    => rThrown = <<"Retry failed", attempts>>

\* C19: fallback runs the primary once; if it succeeds its value is the
\* outcome and the secondary is not run; if it fails the secondary is run
\* once and its value or its error is the outcome, the primary's error gone.
C19_FallbackLastWriterWins ==
  /\ primRuns <= 1 /\ secRuns <= 1
  /\ fbPc \in {"returned", "thrown"} =>
       IF primOut[1] = "value"
       THEN fbPc = "returned" /\ fbOut = primOut /\ secRuns = 0 /\ primRuns = 1
       ELSE /\ primRuns = 1 /\ secRuns = 1
            /\ fbOut = secOut
            /\ fbPc = (IF secOut[1] = "value" THEN "returned" ELSE "thrown")

C19_Witness ==
  /\ primOut = <<"error", 1>>
  /\ secOut = <<"error", 2>>
  /\ fbPc = "thrown"
  /\ fbOut = <<"error", 2>>

\* C20: when withTimeout has failed on an operation that needs longer than
\* timeoutMs, the error is the timeout error and the operation, which was
\* running, has been cancelled.
C20_TimeoutCancelsOperation ==
  (toPc = "failed" /\ opDur > toMs)
    => (toErr = "timeout" /\ opState = "cancelled")

\* C21: once withTimeout has finished on an operation that needs less than
\* timeoutMs, it has returned (the operation ran to its end, no error was
\* thrown), and the timer it set did not fire.
C21_FastOperationWins ==
  (toPc \in {"returned", "failed"} /\ opDur < toMs)
    => (toPc = "returned" /\ opState = "done" /\ toErr = "none")

\* C22: when every operation succeeds and parallel / withConcurrency (with a
\* limit of at least 1) has returned, the list it returned has the length of the input and its i-th
\* element is the result of the i-th operation.
C22_ResultsInInputOrder ==
  (cPc = "returned" /\ maxConcurrency >= 1 /\ \A i \in 1..nOps : opOut[i] = "ok")
    => (Len(results) = nOps /\ \A i \in 1..nOps : results[i] = <<"value", i>>)

\* C23: when parallel / withConcurrency has ended with an error, no operation
\* of the list is still running and the error is that of the operation that
\* failed first in time.
C23_FailFast ==
  (cPc \in {"thrown", "crashed"} /\ firstFail # 0)
    => (RunningOps = {} /\ cErr = firstFail)

\* C24: while withConcurrency, called with a limit of at least 1, works
\* through its list, no more than maxConcurrency of the operations are
\* executing.
C24_AtMostLimitRunning ==
  (cImpl = "withConcurrency" /\ maxConcurrency >= 1 /\ cPc \in {"racing", "awaiting"})
    => Cardinality(RunningOps) <= maxConcurrency

\* C25: once a withResource / useResource call whose use body returned has
\* handed the result to its caller, the cleanup passed to that call has run.
C25_ReleasedBeforeResult ==
  \A i \in 1..depth :
    (fpc[i] = "provided" /\ i \in hasCleanup) => Count(i, relLog) = 1

\* C26: when acquire() of a withResource / useResource call has thrown, the
\* use body of that call was never started, its cleanup was never invoked,
\* and the caller has observed the error.
C26_FailedAcquireSkipsUseAndRelease ==
  acqErr # 0
    => (Count(acqErr, acqLog) = 0 /\ Count(acqErr, relLog) = 0 /\ obs = "error")

\* the inner of two nested calls, both with a cleanup, failed to acquire:
\* only the outer cleanup ran
C26_Witness ==
  acqErr = 2 /\ hasCleanup = {1, 2} /\ relLog = <<1>> /\ obs = "error"

\* C27: when use threw and cleanup threw after it, the error the caller of
\* withResource gets is the error of use.
C27_UseErrorTakesPrecedence ==
  (wPc = "failed" /\ wUse[1] = "error" /\ wCleanup[1] = "error")
    => wCaller = <<"use-error", wUse[2]>>

\* C28: the requests passed to track() are exactly, and in the order of the
\* calls, those the tracking loop has received followed by those that wait
\* in its subscription: none is dropped, none is received twice or out of
\* order.
C28_TrackedAreDeliveredInOrder ==
  delivered \o queue = tracked

\* C30: once createConfig has run on an environment whose port or
\* shutdownTimeout parses to NaN, to zero or to a negative number, start has
\* failed with the configuration error and createServer was not entered; and
\* whenever createServer is entered, both values of the Config it is given
\* are positive integers.
C30_InvalidConfigFailsBeforeServer ==
  LET port == ParseInt(OrDefault(envPort, DefaultPort))
      timeout == ParseInt(OrDefault(envShutdownTimeout, DefaultShutdownTimeout))
      Positive(x) == ~x.nan /\ ~x.neg /\ x.mag > 0
  IN /\ (startPc \notin {"start", "create-config"} /\ routesGiven
          /\ ~(Positive(port) /\ Positive(timeout)))
        => (startPc = "failed"
            /\ startErr \in {"Invalid port configuration",
                              "Invalid shutdown timeout configuration"})
     /\ startPc = "create-server"
        => (Positive(config.port) /\ Positive(config.shutdownTimeout))

\* SHUTDOWN_TIMEOUT="0" with a valid PORT: start failed on the timeout
C30_Witness ==
  /\ envPort = <<"1", "0">>
  /\ envShutdownTimeout = <<"0">>
  /\ startPc = "failed"
  /\ startErr = "Invalid shutdown timeout configuration"

\* C31: withConcurrency called with a limit that is not positive never gets
\* to wait for anything (a race or a task) and never returns: it fails before.
C31_LimitValidatedBeforeUse ==
  (cImpl = "withConcurrency" /\ cPc \in {"racing", "awaiting", "returned"})
    => maxConcurrency >= 1

\* C32: the scheduler is no recovering combinator: once an invocation of the
\* operation it wraps has thrown, the call has thrown that error (the first
\* one raised) to its caller and has caught none.
C32_SchedulerPropagatesFirstError ==
  (\E k \in 1..Count("op", sLog) : k \in sFails)
    => (sPc = "thrown" /\ sCaught = {} /\ sErr \in sFails
        /\ \A k \in 1..(sErr - 1) : k \notin sFails)

SchedTrace(d, n) ==
  (IF d # 0 THEN <<"delay">> ELSE <<>>)
    \o [i \in 1..(2 * n - 1) |-> IF i % 2 = 1 THEN "op" ELSE "interval"]

\* C34 as claimed: a scheduler call with maxIterations >= 1 that has ended
\* has returned after exactly maxIterations invocations, having slept the
\* delay once before the first one and the interval between consecutive
\* ones, and nothing after the last.
C34_RunsExactlyMaxIterations ==
  (sMaxIterations >= 1 /\ sPc \in {"returned", "thrown"})
    => (sPc = "returned" /\ sLog = SchedTrace(sDelay, sMaxIterations))

\* C34 as amended: with maxIterations >= 1 the operation is never invoked
\* more than maxIterations times and the call has ended once it was invoked
\* that often; a call that returned made exactly maxIterations invocations;
\* a call that threw is a schedule call that ended at its first failing
\* invocation; in both cases the sleeps are the delay (if not 0) before the
\* first invocation and the interval between consecutive ones only.
C34_RunsUpToMaxIterations ==
  sMaxIterations >= 1 =>
    /\ Count("op", sLog) <= sMaxIterations
    /\ Count("op", sLog) = sMaxIterations => sPc \in {"returned", "thrown"}
    /\ sPc = "returned" => sLog = SchedTrace(sDelay, sMaxIterations)
    /\ sPc = "thrown" =>
         /\ sImpl = "schedule"
         /\ sErr \in sFails
         /\ \A k \in 1..(sErr - 1) : k \notin sFails
         /\ sLog = SchedTrace(sDelay, sErr)

\* three invocations with a delay: delay, op, interval, op, interval, op
C34_Witness ==
  /\ sMaxIterations = 3
  /\ sDelay = 1
  /\ sPc = "returned"
  /\ sLog = <<"delay", "op", "interval", "op", "interval", "op">>

\* m1(m2(...mn(handler)...)), written from the outside in
RECURSIVE Nested(_, _)
Nested(ms, handler) ==
  IF ms = <<>> THEN handler ELSE Wrap(Head(ms), Nested(Tail(ms), handler))

\* C35: createMiddleware(m1, ..., mn)(handler) is m1(m2(...mn(handler)...)):
\* the first middleware listed is the outermost wrapper and sees the request
\* first, and with an empty list the handler is returned unchanged.
C35_FirstListedIsOutermost ==
  /\ mPc \in {"composed", "called", "done"} =>
       /\ composed = Nested(middleware, BaseHandler)
       /\ middleware = <<>> => composed = BaseHandler
  /\ (seen # <<>> /\ middleware # <<>>) => seen[1] = middleware[1]
  /\ mPc = "done" => seen = middleware \o BaseHandler

\* three different middleware composed and called: the request went through
\* them in the order listed
C35_Witness ==
  /\ mPc = "done"
  /\ middleware = <<"security", "logging", "other">>
  /\ seen = <<"security", "logging", "other", "handler">>

\* C36: when the caller of a resolved or rejected action goes on, the child
\* scope of the body is destroyed and its teardown code has run; the caller
\* gets the settled result, or the destruction error if destroying the child
\* failed.
C36_ChildDestroyedBeforeResume ==
  (aPc = "resumed" /\ aHow \in {"resolve", "reject"}) =>
    /\ aChild = "destroyed"
    /\ aTeardown # "none" => aTeardownRan
    /\ aOut = IF aTeardown = "throws" THEN <<"err", TeardownError>>
              ELSE IF aHow = "resolve" THEN <<"ok", aValue>>
              ELSE <<"err", aValue>>

\* an action rejected from a callback whose teardown throws: the caller went
\* on with the teardown error, after the teardown
C36_Witness ==
  /\ aPc = "resumed"
  /\ aHow = "reject"
  /\ ~aSync
  /\ aTeardown = "throws"
  /\ aTeardownRan
  /\ aOut = <<"err", TeardownError>>

\* C37: createRequestTracker() returns the tracker while the channel is open
\* (createServer is never left waiting inside it for the tracking loop), the
\* tracking loop runs once the tracker is returned, and a request tracked
\* while the loop is free is in the active set until it settles.
C37_TrackerReturnedWithLoopRunning ==
  /\ uPc # "in_tracker"
  /\ uTracker => uLoop # "none"
  /\ (Len(uSent) = 1 /\ uReq[uSent[1]] = "pending") => uSent[1] \in uActive

\* C38: once a tracked request has settled with an error (and the tracking
\* loop has seen it), a request passed to track() is still taken by the
\* tracker (it is in the active set, or waits for the loop behind the request
\* the loop awaits), and waitForCompletion() does not fail.
C38_TrackerSurvivesRejection ==
  /\ [](wfc # "failed")
  /\ [][((\E r \in Range(tracked) : reqState[r] = "rejected")
          /\ ~LoopReady
          /\ Len(tracked') = Len(tracked) + 1)
         => tracked'[Len(tracked')] \in activeRequests' \cup Range(queue')]_vars

\* C39: in handleRequest the primary handling body runs at most once per
\* request and exactly once when the request is answered: retry makes no
\* second attempt and never sleeps, and handleRequest throws nothing; a
\* failure of the primary body is answered with status 500.
C39_PrimaryRunsOnce ==
  rOp = "handleRequest" =>
    /\ primaryRuns <= 1
    /\ attempts = primaryRuns
    /\ Count("delay", evLog) = 0
    /\ rPc \in {"ready", "returned"}
    /\ rPc = "returned" => (primaryRuns = 1 /\ rAnswer[1] = "value")
    /\ rPc = "ready" => primaryRuns = 0

\* a request whose primary body failed: answered 500 after one run
C39_Witness ==
  /\ rOp = "handleRequest"
  /\ rPc = "returned"
  /\ primaryRuns = 1
  /\ rAnswer = <<"value", 500>>

\* C40: in withRetry a delay has been slept after each of the first
\* maxAttempts - 1 failed attempts, the k-th of them of length
\* min(initialDelay * backoffFactor^(k-1), maxDelay); for backoffFactor >= 1
\* the delays do not decrease and none exceeds maxDelay.
C40_BackoffDelays ==
  (rImpl = "withRetry" /\ rMax >= 1) =>
    /\ Len(delays) = Min(Count("fail", evLog), rMax - 1)
    /\ \A k \in 1..Len(delays) :
         delays[k] = Min(initialDelay * Pow(backoffFactor, k - 1), maxDelay)
    /\ backoffFactor >= 1 =>
         /\ \A k \in 1..(Len(delays) - 1) : delays[k] <= delays[k + 1]
         /\ \A k \in 1..Len(delays) : delays[k] <= maxDelay

====
